---- MODULE Spec2Model ----
(***************************************************************************)
(* Quiz question extraction (src/quiz-parser/parse_questions.py).          *)
(*                                                                         *)
(* Text is modelled at character level: a string is a sequence of          *)
(* one-character strings, a line list is a sequence of such strings.       *)
(* Python indices are kept 0-based (variable i, next_index, start_index);  *)
(* At(seq, k) reads the element Python calls seq[k].                       *)
(***************************************************************************)
EXTENDS Integers, Sequences, FiniteSets, TLC

VARIABLES
    docx_content,   \* parse_docx_questions: the text of the document
    lines,      \* argument of parse(): the list of text lines
    sentences,  \* TrueFalseParser.parse: the list of sentence units
    i,          \* loop index of the running parse() (0-based)
    questions,  \* the list of question dicts built by the running parse()
    pc,         \* "ready_mc" | "ready_tf" | "ready_custom" | "mc_scan" |
                \* "tf_scan" | "returned" | "raised" | "idle" | "dispatch" |
                \* "done"
    raised,     \* the exception that left the last call, or None
    ret,        \* the value the last call returned, or None
    draws,      \* values random.randint has yielded so far, in order
    _parsers,   \* QuestionParserRegistry._parsers: the entries of the dict,
                \* in its iteration order
    registered, \* the classes handed to register() so far, in call order
    created,    \* number of parser instances created so far
    called,     \* the last call of a method of the registry: its name and
                \* its argument
    question_type,  \* parse_docx_questions: its argument, or None
    parser,     \* the parser instance whose parse() is called, or None
    parsers,    \* parse_docx_questions: the instances the loop has yet to
                \* run, the running one first
    docx_questions, \* parse_docx_questions: its list "questions"
    outputs,    \* what each parser of the running parse_docx_questions has
                \* returned, with the draws it consumed
    first,      \* the outcome of the previous call on the same document,
                \* or None
    data,       \* validate_and_fix_quiz: the value json.loads returned, or
                \* None
    success,    \* validate_quiz.py main: what validate_and_fix_quiz
                \* returned, or None
    config,     \* QuizLoadTester.config: concurrent_users and
                \* max_submissions, or None
    users,      \* QuizLoadTester.users: the number of users in the list
    quizzes,    \* QuizLoadTester.quizzes: the number of quizzes fetched
    semaphore,  \* QuizLoadTester.semaphore: its value
    _progress_lock, \* QuizLoadTester._progress_lock: the user whose task
                \* holds it, or None
    _submission_limit_reached,  \* QuizLoadTester._submission_limit_reached
    stats,      \* QuizLoadTester.stats: its counters
    tasks,      \* the simulate_user task of each user: where it stands
                \* and its locals
    posted      \* number of quiz submissions the backend has been sent so far

\* QuestionParserRegistry's state
registry == <<_parsers, registered, created, called>>
\* the frame of parse_docx_questions
dispatch ==
    <<docx_content, question_type, parser, parsers, docx_questions,
      outputs>>

\* the state of validate_quiz.py
validator == <<data, success>>
\* the state of QuizLoadTester
tester ==
    <<config, users, quizzes, semaphore, _progress_lock,
      _submission_limit_reached, stats, tasks, posted>>

vars == <<docx_content, lines, sentences, i, questions, pc, raised, ret, draws,
          registry, dispatch, first, validator, tester>>

\* Optional values: None, or Some(v)
None == [none |-> TRUE]
Some(v) == [none |-> FALSE, value |-> v]

\* validate_and_fix_quiz has not been called
NoValidator == data = None /\ success = None

\* no QuizLoadTester has been constructed
NoTester ==
    /\ config = None
    /\ users = 0
    /\ quizzes = 0
    /\ semaphore = 0
    /\ _progress_lock = None
    /\ _submission_limit_reached = FALSE
    /\ stats = None
    /\ tasks = <<>>
    /\ posted = 0

-----------------------------------------------------------------------------
(* Bounds of the model *)

\* longest line list given to MultipleChoiceParser.parse
MaxLines == 8
\* longest line list given to TrueFalseParser.parse
MaxTFLines == 4
\* most calls of QuestionParserRegistry.register, the two of the import
\* included
MaxRegistered == 5
\* most parser instances created
MaxCreated == 8
\* most lines of a document after its question block
MaxDocTail == 1
\* longest line list whose lines are wrapped anew
MaxRewrapLines == 2

-----------------------------------------------------------------------------
(* Characters and strings *)

UpperChars == <<"A","B","C","D","E","F","G","H","I","J","K","L","M",
                "N","O","P","Q","R","S","T","U","V","W","X","Y","Z">>
LowerChars == <<"a","b","c","d","e","f","g","h","i","j","k","l","m",
                "n","o","p","q","r","s","t","u","v","w","x","y","z">>
Digits == {"0","1","2","3","4","5","6","7","8","9"}

LowerMap ==
    [c \in {UpperChars[k] : k \in 1..26} |->
        LowerChars[CHOOSE k \in 1..26 : UpperChars[k] = c]]
UpperMap ==
    [c \in {LowerChars[k] : k \in 1..26} |->
        UpperChars[CHOOSE k \in 1..26 : LowerChars[k] = c]]

\* str.lower() / str.upper() on one character
LowerChar(c) == IF c \in DOMAIN LowerMap THEN LowerMap[c] ELSE c
UpperChar(c) == IF c \in DOMAIN UpperMap THEN UpperMap[c] ELSE c

\* str.lower(), str.upper()
lower(s) == [k \in 1..Len(s) |-> LowerChar(s[k])]
upper(s) == [k \in 1..Len(s) |-> UpperChar(s[k])]

\* regex \s and \w
IsSpace(c) == c \in {" ", "\t"}
IsWordChar(c) == c \in DOMAIN LowerMap \/ c \in DOMAIN UpperMap
                 \/ c \in Digits \/ c = "_"

\* seq[k] with Python's 0-based k
At(seq, k) == seq[k + 1]

\* s[:n]
Prefix(s, n) == SubSeq(s, 1, IF Len(s) < n THEN Len(s) ELSE n)

\* str.strip()
strip(s) ==
    LET nonsp == {k \in 1..Len(s) : ~IsSpace(s[k])}
    IN  IF nonsp = {} THEN <<>>
        ELSE SubSeq(s, CHOOSE a \in nonsp : \A b \in nonsp : a <= b,
                       CHOOSE a \in nonsp : \A b \in nonsp : a >= b)

\* str.startswith(p)
startswith(s, p) == Len(s) >= Len(p) /\ SubSeq(s, 1, Len(p)) = p

-----------------------------------------------------------------------------
(* Regular expressions. A position is a 1-based index into the string; a   *)
(* failed match is position 0. All patterns are used with re.IGNORECASE.   *)

\* \s* from position p (greedy): the first position at or after p that
\* holds no whitespace
SkipSpaces(s, p) ==
    CHOOSE q \in p..(Len(s) + 1) :
        /\ \A k \in p..(q - 1) : IsSpace(s[k])
        /\ (q = Len(s) + 1 \/ ~IsSpace(s[q]))

\* a literal (given in lower case) at position p: the position after it
MatchLit(s, p, lit) ==
    IF /\ p >= 1
       /\ p + Len(lit) - 1 <= Len(s)
       /\ \A k \in 1..Len(lit) : LowerChar(s[p + k - 1]) = lit[k]
    THEN p + Len(lit) ELSE 0

\* :?\s* from position p, the position after "answer"
AfterAnswer(s, p) ==
    IF p = 0 THEN 0
    ELSE SkipSpaces(s, IF p <= Len(s) /\ s[p] = ":" THEN p + 1 ELSE p)

\* \s*answer:?\s* from position p, the position after "correct"
AfterCorrect(s, p) ==
    IF p = 0 THEN 0
    ELSE AfterAnswer(s, MatchLit(s, SkipSpaces(s, p),
                                 <<"a","n","s","w","e","r">>))

\* ^correct\s*answer:?\s*  -- the position after it
CorrectAnswerPrefix(s) ==
    AfterCorrect(s, MatchLit(s, 1, <<"c","o","r","r","e","c","t">>))

\* what re.match returns: no match, or the captured groups
NoMatch == [matched |-> FALSE]
Match1(g1) == [matched |-> TRUE, g1 |-> g1]
Match2(g1, g2) == [matched |-> TRUE, g1 |-> g1, g2 |-> g2]

\* variant: only '.' is a delimiter, rf"^{expected_label}\.\s*(.+)$"
ANSWER_PATTERN_dot_only(expected_label, s) ==
    IF /\ Len(s) >= 3
       /\ LowerChar(s[1]) = LowerChar(expected_label)
       /\ s[2] = "."
    THEN LET q == SkipSpaces(s, 3)
         IN  Match1(SubSeq(s, IF q > Len(s) THEN Len(s) ELSE q, Len(s)))
    ELSE NoMatch

\* variant: any label is accepted at any position, r"^[A-D][\.\)]\s*(.+)$"
ANSWER_PATTERN_any_label(expected_label, s) ==
    IF /\ Len(s) >= 3
       /\ LowerChar(s[1]) \in {"a", "b", "c", "d"}
       /\ s[2] \in {".", ")"}
    THEN LET q == SkipSpaces(s, 3)
         IN  Match1(SubSeq(s, IF q > Len(s) THEN Len(s) ELSE q, Len(s)))
    ELSE NoMatch

\* variant: the text may be empty, rf"^{expected_label}[\.\)]\s*(.*)$"
ANSWER_PATTERN_empty_text(expected_label, s) ==
    IF /\ Len(s) >= 2
       /\ LowerChar(s[1]) = LowerChar(expected_label)
       /\ s[2] \in {".", ")"}
    THEN Match1(SubSeq(s, SkipSpaces(s, 3), Len(s)))
    ELSE NoMatch

\* rf"^{expected_label}[\.\)]\s*(.+)$"
ANSWER_PATTERN(expected_label, s) ==
    IF /\ Len(s) >= 3
       /\ LowerChar(s[1]) = LowerChar(expected_label)
       /\ s[2] \in {".", ")"}
    THEN LET q == SkipSpaces(s, 3)
         IN  \* (.+) needs one character: \s* gives back its last one
             Match1(SubSeq(s, IF q > Len(s) THEN Len(s) ELSE q, Len(s)))
    ELSE NoMatch

\* r"^correct\s*answer:?\s*([A-D])"
MC_CORRECT_PATTERN(s) ==
    LET p == CorrectAnswerPrefix(s)
    IN  IF p # 0 /\ p <= Len(s) /\ LowerChar(s[p]) \in {"a","b","c","d"}
        THEN Match1(<<s[p]>>)
        ELSE NoMatch

\* the alternation (true|false|t|f), in the order the regex engine tries it
TF_TOKENS == << <<"t","r","u","e">>, <<"f","a","l","s","e">>, <<"t">>, <<"f">> >>

\* the least element of a set of numbers
Min(S) == CHOOSE a \in S : \A b \in S : a <= b

\* the text of alternative k of (true|false|t|f) matched at position p
TokenText(s, p, k) == SubSeq(s, p, p + Len(TF_TOKENS[k]) - 1)

\* (true|false|t|f) at position p: the first alternative that matches
TokenAt(s, p, alts) ==
    IF p = 0 \/ alts = {} THEN NoMatch ELSE Match1(TokenText(s, p, Min(alts)))

\* r"^correct\s*answer:?\s*(true|false|t|f)"
TF_CORRECT_PATTERN(s) ==
    TokenAt(s, CorrectAnswerPrefix(s),
            {k \in 1..Len(TF_TOKENS) :
                MatchLit(s, CorrectAnswerPrefix(s), TF_TOKENS[k]) # 0})

\* the text (.+) captures after \s+ when the token ends before position e:
\* \s+ takes the whole whitespace run and gives its last character back
\* when nothing else is left for (.+); <<>> when \s+(.+) does not match
AfterToken(s, e) ==
    IF e = 0 \/ e > Len(s) \/ ~IsSpace(s[e]) THEN <<>>
    ELSE IF SkipSpaces(s, e) <= Len(s)
         THEN SubSeq(s, SkipSpaces(s, e), Len(s))
         ELSE IF SkipSpaces(s, e) - e >= 2 THEN <<s[Len(s)]>> ELSE <<>>

\* (true|false|t|f)\s+(.+) at position p: the first alternative after which
\* the rest of the pattern matches
LeadingAt(s, p, alts) ==
    IF p = 0 \/ alts = {} THEN NoMatch
    ELSE Match2(TokenText(s, p, Min(alts)),
                AfterToken(s, p + Len(TF_TOKENS[Min(alts)])))

\* r"^correct\s*answer:?\s*(true|false|t|f)\s+(.+)"
LEADING_PATTERN(s) ==
    LeadingAt(s, CorrectAnswerPrefix(s),
              {k \in 1..Len(TF_TOKENS) :
                  AfterToken(s, MatchLit(s, CorrectAnswerPrefix(s),
                                         TF_TOKENS[k])) # <<>>})

\* \s*$ at position e, the position after a token
AtEnd(t, e) == e # 0 /\ SkipSpaces(t, e) = Len(t) + 1

\* (true|false|t|f)\s*$ at position c of t: the token matched, or <<>>
LastToken(t, c, alts) ==
    IF c = 0 \/ alts = {} THEN <<>> ELSE TokenText(t, c, Min(alts))

\* correct\s*answer:?\s*(true|false|t|f)\s*$ on the text t: the token
\* matched, or <<>>
TrailingFragment(t) ==
    LastToken(t, CorrectAnswerPrefix(t),
              {k \in 1..Len(TF_TOKENS) :
                  AtEnd(t, MatchLit(t, CorrectAnswerPrefix(t), TF_TOKENS[k]))})

\* \s*correct\s*answer:?\s*(true|false|t|f)\s*$ on the text from position p:
\* the token matched, or <<>>
TrailingToken(s, p) == TrailingFragment(SubSeq(s, SkipSpaces(s, p), Len(s)))

\* (.+?) ends before the first of the periods at the positions dots
TrailingAt(s, dots) ==
    IF dots = {} THEN NoMatch
    ELSE Match2(SubSeq(s, 1, Min(dots) - 1), TrailingToken(s, Min(dots) + 1))

\* r"^(.+?)\.\s*correct\s*answer:?\s*(true|false|t|f)\s*$": (.+?) is lazy, it
\* ends before the first period that the rest of the pattern matches after
TRAILING_PATTERN(s) ==
    TrailingAt(s, {d \in 2..Len(s) :
                      s[d] = "." /\ TrailingToken(s, d + 1) # <<>>})

\* re.search(r"\bassume\b", s, re.IGNORECASE)
ASSUME_PATTERN(s) ==
    \E p \in 1..Len(s) :
        /\ MatchLit(s, p, <<"a","s","s","u","m","e">>) # 0
        /\ (IF p = 1 THEN TRUE ELSE ~IsWordChar(s[p - 1]))
        /\ (IF p + 6 > Len(s) THEN TRUE ELSE ~IsWordChar(s[p + 6]))

\* re.split(r"(?<=[.!?])\s+", text): the text is cut at every whitespace run
\* that follows a '.', '!' or '?'
RECURSIVE SplitSentences(_)
SplitSentences(text) ==
    LET cuts == {p \in 2..Len(text) :
                    IsSpace(text[p]) /\ text[p - 1] \in {".", "!", "?"}}
    IN  IF cuts = {} THEN <<text>>
        ELSE LET p == CHOOSE a \in cuts : \A b \in cuts : a <= b
             IN  <<SubSeq(text, 1, p - 1)>>
                 \o SplitSentences(SubSeq(text, SkipSpaces(text, p), Len(text)))

\* " ".join(lns)
RECURSIVE Join(_)
Join(lns) ==
    IF lns = <<>> THEN <<>>
    ELSE IF Len(lns) = 1 THEN lns[1]
    ELSE lns[1] \o <<" ">> \o Join(Tail(lns))

-----------------------------------------------------------------------------
(* Utility functions *)

\* variant: the upper end is one too far, randint(0, max_index + 1)
get_random_correct_answer_too_far(max_index) == 0..(max_index + 1)

\* random.randint(0, max_index): the values a call can yield
get_random_correct_answer(max_index) == 0..max_index

\* ord(letter.upper()) - ord("A")
convert_letter_to_index(letter) ==
    (CHOOSE k \in 1..26 : UpperChars[k] = UpperChar(letter[1])) - 1

\* 0 if value.upper() in ["TRUE", "T"] else 1
convert_true_false_to_index(value) ==
    IF upper(value) \in {<<"T","R","U","E">>, <<"T">>} THEN 0 ELSE 1

create_question_dict(question, answers, q_type, correct_answer) ==
    [question |-> question, answers |-> answers, type |-> q_type,
     correct_answer |-> correct_answer]

\* re.match(pattern, s, re.IGNORECASE) for the two patterns handed to
\* parse_correct_answer_line
re_match(pattern, s) ==
    CASE pattern = "^correct\\s*answer:?\\s*([A-D])" -> MC_CORRECT_PATTERN(s)
      [] pattern = "^correct\\s*answer:?\\s*(true|false|t|f)" ->
             TF_CORRECT_PATTERN(s)

\* converter(value) for the two converters handed to parse_correct_answer_line
call(converter, value) ==
    CASE converter = "convert_letter_to_index" -> convert_letter_to_index(value)
      [] converter = "convert_true_false_to_index" ->
             convert_true_false_to_index(value)

\* the index of the correct answer, or None
parse_correct_answer_line(line, pattern, converter) ==
    LET match == re_match(pattern, strip(line))
    IN  IF match.matched THEN Some(call(converter, match.g1)) ELSE None

-----------------------------------------------------------------------------
(* Line lists given to MultipleChoiceParser.parse: normalized lines        *)
(* (stripped, not empty), as parse_docx_questions produces them.           *)

L_Question  == <<"Q","u","e","s","t","i","o","n">>
L_QUESTION2 == <<"Q","U","E","S","T","I","O","N"," ","2">>
L_Prompt    == <<"W","?">>
L_A         == <<"A","."," ","p">>
L_B         == <<"B","."," ","q">>
L_C         == <<"C","."," ","r">>
L_D         == <<"D","."," ","s">>
L_a         == <<"a",")"," ","p">>
L_b         == <<"b",")","q">>
L_c         == <<"c",")"," "," ","r">>
L_d         == <<"d",")"," ","s">>
L_CorrectB  == <<"C","o","r","r","e","c","t"," ","A","n","s","w","e","r",":"," ","B">>
L_correct_a == <<"c","o","r","r","e","c","t"," ","a","n","s","w","e","r"," ","a">>
L_CorrectE  == <<"C","o","r","r","e","c","t"," ","A","n","s","w","e","r",":"," ","E">>
L_Abare     == <<"A",".">>
L_Correctd  == <<"C","o","r","r","e","c","t","A","n","s","w","e","r",":","d">>

\* the answer texts of the lines above, in label order
AnswerTexts == << <<"p">>, <<"q">>, <<"r">>, <<"s">> >>

MCVocab == {L_Question, L_QUESTION2, L_Prompt, L_A, L_B, L_C, L_D,
            L_a, L_b, L_c, L_d, L_CorrectB, L_correct_a, L_CorrectE, L_Abare,
            L_Correctd}

\* the pieces a well-formed document is made of: a narrative line, a block,
\* a block with its correct-answer line
Block1 == <<L_Question, L_Prompt, L_A, L_B, L_C, L_D>>
Block2 == <<L_QUESTION2, L_Prompt, L_a, L_b, L_c, L_d>>
Segments == {<<L_Prompt>>, Block1, Block2,
             Append(Block1, L_CorrectB), Append(Block1, L_correct_a),
             Append(Block2, L_CorrectB), Append(Block2, L_correct_a)}

\* the well-formed documents of exactly n lines
RECURSIVE Docs(_)
Docs(n) ==
    IF n = 0 THEN {<<>>}
    ELSE UNION {{s \o d : d \in Docs(n - Len(s))} :
                    s \in {t \in Segments : Len(t) <= n}}

\* a document, or a document with one line replaced by another line
Corrupted(d) ==
    {d} \cup {[d EXCEPT ![p] = v] : p \in DOMAIN d, v \in MCVocab}

\* the inputs: every prefix of every document with at most one line replaced
MCInputs ==
    UNION {{SubSeq(m, 1, n) : n \in 0..Len(m)} :
              m \in UNION {Corrupted(d) : d \in Docs(MaxLines)}}

-----------------------------------------------------------------------------
(* MultipleChoiceParser *)

ANSWER_LABELS == <<"A", "B", "C", "D">>
NUM_ANSWERS == 4
ExcerptLen == 50

\* the ValueError values
NoQuestionText(line_no) ==
    [error |-> "no question text follows", line |-> line_no]
MissingAnswer(question_text, expected_label) ==
    [error |-> "does not have 4 answer choices",
     excerpt |-> Prefix(question_text, ExcerptLen), label |-> expected_label]
ImproperAnswer(question_text, expected_label, answer_line) ==
    [error |-> "improperly formatted answer",
     excerpt |-> Prefix(question_text, ExcerptLen), label |-> expected_label,
     found |-> answer_line]

IsError(v) == "error" \in DOMAIN v

\* variant: the loop stops at the end of the input instead of raising
RECURSIVE ParseAnswersFrom_stops_at_end(_, _, _, _, _)
ParseAnswersFrom_stops_at_end(lns, start_index, question_text, k, answers) ==
    IF k > Len(ANSWER_LABELS) THEN [answers |-> answers]
    ELSE LET expected_label == ANSWER_LABELS[k]
             idx == start_index + k - 1
         IN  IF idx >= Len(lns)
             THEN [answers |-> answers]
             ELSE LET answer_line == At(lns, idx)
                      match == ANSWER_PATTERN(expected_label, answer_line)
                  IN  IF ~match.matched
                      THEN ImproperAnswer(question_text, expected_label,
                                          answer_line)
                      ELSE ParseAnswersFrom_stops_at_end(lns, start_index,
                               question_text, k + 1,
                               Append(answers, strip(match.g1)))

\* the for loop of _parse_answers from label number k on, with the answers
\* collected so far: the list of answers returned, or the ValueError raised
RECURSIVE ParseAnswersFrom(_, _, _, _, _)
ParseAnswersFrom(lns, start_index, question_text, k, answers) ==
    IF k > Len(ANSWER_LABELS) THEN [answers |-> answers]
    ELSE LET expected_label == ANSWER_LABELS[k]
             idx == start_index + k - 1
         IN  IF idx >= Len(lns)
             THEN MissingAnswer(question_text, expected_label)
             ELSE LET answer_line == At(lns, idx)
                      match == ANSWER_PATTERN(expected_label, answer_line)
                  IN  IF ~match.matched
                      THEN ImproperAnswer(question_text, expected_label,
                                          answer_line)
                      ELSE ParseAnswersFrom(lns, start_index, question_text,
                               k + 1, Append(answers, strip(match.g1)))

_parse_answers(lns, start_index, question_text) ==
    ParseAnswersFrom(lns, start_index, question_text, 1, <<>>)

_find_correct_answer(lns, index) ==
    IF index >= Len(lns) THEN None
    ELSE parse_correct_answer_line(At(lns, index),
             "^correct\\s*answer:?\\s*([A-D])", "convert_letter_to_index")

\* variant: a marker without a following line makes the call return None
_parse_single_question_returns_none(lns, start_index, r) ==
    IF start_index + 1 >= Len(lns)
    THEN None
    ELSE LET question_text == At(lns, start_index + 1)
             answers == _parse_answers(lns, start_index + 2, question_text)
         IN  IF IsError(answers) THEN answers
             ELSE LET idx == start_index + 2 + NUM_ANSWERS
                      found == _find_correct_answer(lns, idx)
                      correct_answer ==
                          IF found # None THEN found.value ELSE r
                  IN  [question |-> create_question_dict(question_text,
                           answers.answers, "multiple_choice", correct_answer),
                       next_index |-> IF found # None THEN idx + 1 ELSE idx,
                       drew |-> found = None]

\* variant: "if correct_answer:" instead of "if correct_answer is not None",
\* so that index 0 counts as absent
_parse_single_question_truthy(lns, start_index, r) ==
    IF start_index + 1 >= Len(lns)
    THEN NoQuestionText(start_index + 1)
    ELSE LET question_text == At(lns, start_index + 1)
             answers == _parse_answers(lns, start_index + 2, question_text)
         IN  IF IsError(answers) THEN answers
             ELSE LET idx == start_index + 2 + NUM_ANSWERS
                      found == _find_correct_answer(lns, idx)
                      truthy == IF found = None THEN FALSE ELSE found.value # 0
                      correct_answer == IF truthy THEN found.value ELSE r
                  IN  [question |-> create_question_dict(question_text,
                           answers.answers, "multiple_choice", correct_answer),
                       next_index |-> IF truthy THEN idx + 1 ELSE idx,
                       drew |-> ~truthy]

\* variant: the scan resumes at the line after the marker
_parse_single_question_resumes_at_prompt(lns, start_index, r) ==
    IF start_index + 1 >= Len(lns)
    THEN NoQuestionText(start_index + 1)
    ELSE LET question_text == At(lns, start_index + 1)
             answers == _parse_answers(lns, start_index + 2, question_text)
         IN  IF IsError(answers) THEN answers
             ELSE LET idx == start_index + 2 + NUM_ANSWERS
                      found == _find_correct_answer(lns, idx)
                      correct_answer ==
                          IF found # None THEN found.value ELSE r
                  IN  [question |-> create_question_dict(question_text,
                           answers.answers, "multiple_choice", correct_answer),
                       next_index |-> start_index + 1,
                       drew |-> found = None]

\* variant: the line after the four answers is always passed over
_parse_single_question_always_consumes(lns, start_index, r) ==
    IF start_index + 1 >= Len(lns)
    THEN NoQuestionText(start_index + 1)
    ELSE LET question_text == At(lns, start_index + 1)
             answers == _parse_answers(lns, start_index + 2, question_text)
         IN  IF IsError(answers) THEN answers
             ELSE LET idx == start_index + 2 + NUM_ANSWERS
                      found == _find_correct_answer(lns, idx)
                      correct_answer ==
                          IF found # None THEN found.value ELSE r
                  IN  [question |-> create_question_dict(question_text,
                           answers.answers, "multiple_choice", correct_answer),
                       next_index |-> idx + 1,
                       drew |-> found = None]

\* r is the value random.randint yields if it is called; the result is the
\* ValueError raised, or the dict returned plus whether randint was called
_parse_single_question(lns, start_index, r) ==
    IF start_index + 1 >= Len(lns)
    THEN NoQuestionText(start_index + 1)
    ELSE LET question_text == At(lns, start_index + 1)
             answers == _parse_answers(lns, start_index + 2, question_text)
         IN  IF IsError(answers) THEN answers
             ELSE LET idx == start_index + 2 + NUM_ANSWERS
                      found == _find_correct_answer(lns, idx)
                      correct_answer ==
                          IF found # None THEN found.value ELSE r
                  IN  [question |-> create_question_dict(question_text,
                           answers.answers, "multiple_choice", correct_answer),
                       next_index |-> IF found # None THEN idx + 1 ELSE idx,
                       drew |-> found = None]

\* line.lower().startswith("question")
IsMarker(line) ==
    startswith(lower(line), <<"q","u","e","s","t","i","o","n">>)

\* questions = []; i = 0
MultipleChoiceParser_parse ==
    /\ pc = "ready_mc"
    /\ pc' = "mc_scan"
    /\ i' = 0
    /\ questions' = <<>>
    /\ UNCHANGED <<lines, sentences, raised, ret, draws>>
    /\ UNCHANGED <<registry, dispatch, first, validator, tester>>

\* a loop iteration on a line that is no marker
MC_skip_line ==
    /\ pc = "mc_scan"
    /\ i < Len(lines)
    /\ ~IsMarker(At(lines, i))
    /\ i' = i + 1
    /\ UNCHANGED <<lines, sentences, questions, pc, raised, ret, draws>>
    /\ UNCHANGED <<registry, dispatch, first, validator, tester>>

\* a loop iteration on a marker line
MC_question ==
    /\ pc = "mc_scan"
    /\ i < Len(lines)
    /\ IsMarker(At(lines, i))
    /\ \E r \in get_random_correct_answer(NUM_ANSWERS - 1) :
         LET question_data == _parse_single_question(lines, i, r)
         IN  IF IsError(question_data)
             THEN /\ pc' = "raised"
                  /\ raised' = question_data
                  /\ UNCHANGED <<i, questions, draws>>
             ELSE IF question_data = None
             THEN \* "if question_data: ... else: i += 1"
                  /\ i' = i + 1
                  /\ UNCHANGED <<questions, pc, raised, draws>>
             ELSE /\ questions' = Append(questions, question_data.question)
                  /\ i' = question_data.next_index
                  /\ draws' = IF question_data.drew
                              THEN Append(draws, r) ELSE draws
                  /\ UNCHANGED <<pc, raised>>
    /\ UNCHANGED <<lines, sentences, ret>>
    /\ UNCHANGED <<registry, dispatch, first, validator, tester>>

\* return questions
MC_return ==
    /\ pc = "mc_scan"
    /\ i >= Len(lines)
    /\ pc' = "returned"
    /\ ret' = Some(questions)
    /\ UNCHANGED <<lines, sentences, i, questions, raised, draws>>
    /\ UNCHANGED <<registry, dispatch, first, validator, tester>>

-----------------------------------------------------------------------------
(* Line lists given to TrueFalseParser.parse *)

T_Assume      == <<"A","s","s","u","m","e"," ","X",".">>
T_CorrectTrue == <<"C","o","r","r","e","c","t"," ","A","n","s","w","e","r",":"," ","T","r","u","e">>
T_correct_f   == <<"c","o","r","r","e","c","t"," ","a","n","s","w","e","r"," ","f",".">>
T_assumed     == <<"H","e"," ","a","s","s","u","m","e","d"," ","Y",".">>
T_Trailing    == <<"A","s","s","u","m","e"," ","Z",".","C","o","r","r","e","c","t"," ","A","n","s","w","e","r",":"," ","F","a","l","s","e">>
T_ASSUME      == <<"D","o"," ","w","e"," ","A","S","S","U","M","E"," ","V","?">>

TFVocab == {T_Assume, T_CorrectTrue, T_correct_f, T_assumed, T_Trailing,
            T_ASSUME}

\* the inputs: every list of at most MaxTFLines lines of TFVocab
TFInputs == UNION {[1..n -> TFVocab] : n \in 0..MaxTFLines}

-----------------------------------------------------------------------------
(* TrueFalseParser *)

ANSWERS == << <<"T","r","u","e">>, <<"F","a","l","s","e">> >>

\* variant: the leading answer is removed but never applied
_handle_leading_correct_answer_not_applied(sentence, qs) ==
    LET leading_correct == LEADING_PATTERN(sentence)
    IN  IF leading_correct.matched
        THEN [sentence |-> strip(leading_correct.g2), questions |-> qs]
        ELSE [sentence |-> sentence, questions |-> qs]

\* variant: the answer is applied to the first question of the list
_handle_leading_correct_answer_first_record(sentence, qs) ==
    LET leading_correct == LEADING_PATTERN(sentence)
    IN  IF leading_correct.matched
        THEN [sentence |-> strip(leading_correct.g2),
              questions |->
                  IF Len(qs) > 0
                  THEN [qs EXCEPT ![1].correct_answer =
                           convert_true_false_to_index(leading_correct.g1)]
                  ELSE qs]
        ELSE [sentence |-> sentence, questions |-> qs]

\* variant: without a question to apply it to, the leading answer stays in
\* the sentence
_handle_leading_correct_answer_keeps_unattached(sentence, qs) ==
    LET leading_correct == LEADING_PATTERN(sentence)
    IN  IF leading_correct.matched /\ Len(qs) > 0
        THEN [sentence |-> strip(leading_correct.g2),
              questions |->
                  [qs EXCEPT ![Len(qs)].correct_answer =
                      convert_true_false_to_index(leading_correct.g1)]]
        ELSE [sentence |-> sentence, questions |-> qs]

\* variant: the answer is applied to every question of the list
_handle_leading_correct_answer_all_records(sentence, qs) ==
    LET leading_correct == LEADING_PATTERN(sentence)
    IN  IF leading_correct.matched
        THEN [sentence |-> strip(leading_correct.g2),
              questions |->
                  [k \in 1..Len(qs) |->
                      [qs[k] EXCEPT !.correct_answer =
                          convert_true_false_to_index(leading_correct.g1)]]]
        ELSE [sentence |-> sentence, questions |-> qs]

\* the sentence without a leading correct answer, and the list of questions
\* with that answer applied to the previous question
_handle_leading_correct_answer(sentence, qs) ==
    LET leading_correct == LEADING_PATTERN(sentence)
    IN  IF leading_correct.matched
        THEN [sentence |-> strip(leading_correct.g2),
              questions |->
                  IF Len(qs) > 0
                  THEN [qs EXCEPT ![Len(qs)].correct_answer =
                           convert_true_false_to_index(leading_correct.g1)]
                  ELSE qs]
        ELSE [sentence |-> sentence, questions |-> qs]

\* variant: the period before the fragment is not restored
_parse_with_trailing_answer_no_period(sentence) ==
    LET correct_at_end == TRAILING_PATTERN(sentence)
    IN  IF correct_at_end.matched
        THEN Some(create_question_dict(
                 strip(correct_at_end.g1), ANSWERS, "true_false",
                 convert_true_false_to_index(correct_at_end.g2)))
        ELSE None

\* the question dict, or None
_parse_with_trailing_answer(sentence) ==
    LET correct_at_end == TRAILING_PATTERN(sentence)
    IN  IF correct_at_end.matched
        THEN Some(create_question_dict(
                 Append(strip(correct_at_end.g1), "."), ANSWERS, "true_false",
                 convert_true_false_to_index(correct_at_end.g2)))
        ELSE None

\* variant: the sentence after the next one is inspected
_find_correct_answer_in_next_one_further(sents, index) ==
    IF index + 1 >= Len(sents) THEN None
    ELSE parse_correct_answer_line(At(sents, index + 1),
             "^correct\\s*answer:?\\s*(true|false|t|f)",
             "convert_true_false_to_index")

\* variant: without an annotation in the next sentence, the sentence before
\* the assumption sentence is inspected
_find_correct_answer_in_next_or_before(sents, index) ==
    LET next == IF index >= Len(sents) THEN None
                ELSE parse_correct_answer_line(At(sents, index),
                         "^correct\\s*answer:?\\s*(true|false|t|f)",
                         "convert_true_false_to_index")
    IN  IF next = None /\ index >= 2
        THEN parse_correct_answer_line(At(sents, index - 2),
                 "^correct\\s*answer:?\\s*(true|false|t|f)",
                 "convert_true_false_to_index")
        ELSE next

_find_correct_answer_in_next(sents, index) ==
    IF index >= Len(sents) THEN None
    ELSE parse_correct_answer_line(At(sents, index),
             "^correct\\s*answer:?\\s*(true|false|t|f)",
             "convert_true_false_to_index")

\* variant: an annotated next sentence is skipped even if it holds "assume"
_process_assumption_sentence_always_skips(sents, index, qs, r) ==
    LET led == _handle_leading_correct_answer(strip(At(sents, index)), qs)
        result == _parse_with_trailing_answer(led.sentence)
    IN  IF result # None
        THEN [questions |-> Append(led.questions, result.value),
              next_index |-> index + 1, drew |-> FALSE]
        ELSE LET next_index == index + 1
                 correct_answer == _find_correct_answer_in_next(sents, next_index)
                 question_dict == create_question_dict(led.sentence, ANSWERS,
                     "true_false",
                     IF correct_answer # None THEN correct_answer.value ELSE r)
             IN  [questions |-> Append(led.questions, question_dict),
                  next_index |->
                      IF correct_answer # None
                      THEN next_index + 1 ELSE next_index,
                  drew |-> correct_answer = None]

\* r is the value random.randint yields if it is called; the result is the
\* list of questions after the call, the index returned and whether randint
\* was called
_process_assumption_sentence(sents, index, qs, r) ==
    LET led == _handle_leading_correct_answer(strip(At(sents, index)), qs)
        result == _parse_with_trailing_answer(led.sentence)
    IN  IF result # None
        THEN [questions |-> Append(led.questions, result.value),
              next_index |-> index + 1, drew |-> FALSE]
        ELSE LET next_index == index + 1
                 correct_answer == _find_correct_answer_in_next(sents, next_index)
                 question_dict == create_question_dict(led.sentence, ANSWERS,
                     "true_false",
                     IF correct_answer # None THEN correct_answer.value ELSE r)
             IN  [questions |-> Append(led.questions, question_dict),
                  next_index |->
                      IF /\ correct_answer # None
                         /\ next_index < Len(sents)
                         /\ ~ASSUME_PATTERN(At(sents, next_index))
                      THEN next_index + 1 ELSE next_index,
                  drew |-> correct_answer = None]

\* the sentences of each line, one line after the other
RECURSIVE SentencesByLine(_)
SentencesByLine(lns) ==
    IF lns = <<>> THEN <<>>
    ELSE SplitSentences(Head(lns)) \o SentencesByLine(Tail(lns))

\* variant: the lines are split into sentences one by one, never joined
TrueFalseParser_parse_by_line ==
    /\ pc = "ready_tf"
    /\ pc' = "tf_scan"
    /\ sentences' = SentencesByLine(lines)
    /\ i' = 0
    /\ questions' = <<>>
    /\ UNCHANGED <<lines, raised, ret, draws>>
    /\ UNCHANGED <<registry, dispatch, first, validator, tester>>

\* variant: the list of an earlier call is kept, "questions = []" is missing
TrueFalseParser_parse_keeps_questions ==
    /\ pc = "ready_tf"
    /\ pc' = "tf_scan"
    /\ sentences' = SplitSentences(Join(lines))
    /\ i' = 0
    /\ UNCHANGED <<lines, questions, raised, ret, draws>>
    /\ UNCHANGED <<registry, dispatch, first, validator, tester>>

\* questions = []; the lines are joined and split into sentences; i = 0
TrueFalseParser_parse ==
    /\ pc = "ready_tf"
    /\ pc' = "tf_scan"
    /\ sentences' = SplitSentences(Join(lines))
    /\ i' = 0
    /\ questions' = <<>>
    /\ UNCHANGED <<lines, raised, ret, draws>>
    /\ UNCHANGED <<registry, dispatch, first, validator, tester>>

\* a loop iteration on a sentence without the word "assume"
TF_skip_sentence ==
    /\ pc = "tf_scan"
    /\ i < Len(sentences)
    /\ ~ASSUME_PATTERN(strip(At(sentences, i)))
    /\ i' = i + 1
    /\ UNCHANGED <<lines, sentences, questions, pc, raised, ret, draws>>
    /\ UNCHANGED <<registry, dispatch, first, validator, tester>>

\* a loop iteration on a sentence with the word "assume"
TF_assumption ==
    /\ pc = "tf_scan"
    /\ i < Len(sentences)
    /\ ASSUME_PATTERN(strip(At(sentences, i)))
    /\ \E r \in get_random_correct_answer(1) :
         LET result == _process_assumption_sentence(sentences, i, questions, r)
         IN  /\ questions' = result.questions
             /\ i' = result.next_index
             /\ draws' = IF result.drew THEN Append(draws, r) ELSE draws
    /\ UNCHANGED <<lines, sentences, pc, raised, ret>>
    /\ UNCHANGED <<registry, dispatch, first, validator, tester>>

\* return questions
TF_return ==
    /\ pc = "tf_scan"
    /\ i >= Len(sentences)
    /\ pc' = "returned"
    /\ ret' = Some(questions)
    /\ UNCHANGED <<lines, sentences, i, questions, raised, draws>>
    /\ UNCHANGED <<registry, dispatch, first, validator, tester>>

-----------------------------------------------------------------------------
(* Parser classes and QuestionParserRegistry *)

\* the parser classes: the two of the module, the CustomParser that
\* test_custom_parser_registration defines, the class the same test defines
\* when it runs again, and the MyNewParser of QuestionParser's docstring
ParserClasses ==
    {"MultipleChoiceParser", "TrueFalseParser", "CustomParser",
     "CustomParser_again", "MyNewParser"}

\* the type_key property of the instances of a class
type_key(parser_class) ==
    CASE parser_class = "MultipleChoiceParser" -> "multiple_choice"
      [] parser_class = "TrueFalseParser" -> "true_false"
      [] parser_class \in {"CustomParser", "CustomParser_again"} -> "custom"
      [] parser_class = "MyNewParser" -> "my_new_type"

\* the keys handed to get_parser and parse_docx_questions
TypeKeys ==
    {"multiple_choice", "true_false", "custom", "my_new_type",
     "unknown_type", "all"}

\* variant: every call hands out the one instance made first
new_cached(parser_class, n) == [class |-> parser_class, id |-> 1]

\* parser_class(): the instance created when n instances exist already
new(parser_class, n) == [class |-> parser_class, id |-> n + 1]

\* A dict is the sequence of its entries in iteration order.
\* list(d.keys())
keys(d) == [k \in 1..Len(d) |-> d[k].type_key]
\* list(d.values())
values(d) == [k \in 1..Len(d) |-> d[k].parser_class]
\* key in d
contains(d, key) == \E k \in 1..Len(d) : d[k].type_key = key
\* d[key]
getitem(d, key) ==
    d[CHOOSE k \in 1..Len(d) : d[k].type_key = key].parser_class

\* variant: a key that is present keeps its class
setitem_keeps_first(d, key, value) ==
    IF contains(d, key) THEN d
    ELSE Append(d, [type_key |-> key, parser_class |-> value])

\* variant: a key that is present is removed and inserted anew
setitem_moves_to_end(d, key, value) ==
    Append(SelectSeq(d, LAMBDA e : e.type_key # key),
           [type_key |-> key, parser_class |-> value])

\* d[key] = value: a key that is present keeps its place
setitem(d, key, value) ==
    IF contains(d, key)
    THEN [k \in 1..Len(d) |->
             IF d[k].type_key = key
             THEN [type_key |-> key, parser_class |-> value] ELSE d[k]]
    ELSE Append(d, [type_key |-> key, parser_class |-> value])

\* KeyError(f"No parser registered for type '{type_key}'")
KeyError(key) ==
    [error |-> "KeyError", message |-> "No parser registered for type",
     type_key |-> key]

\* the registry after the import of the module: the two decorated classes
DefaultParsers ==
    setitem(setitem(<<>>, type_key("MultipleChoiceParser"),
                    "MultipleChoiceParser"),
            type_key("TrueFalseParser"), "TrueFalseParser")

\* the frame of the calls of the registry
RegistryFrame ==
    UNCHANGED <<lines, sentences, i, questions, pc, draws, dispatch, first,
                validator, tester>>

\* QuestionParserRegistry.register(parser_class)
register(parser_class) ==
    /\ pc = "idle"
    /\ Len(registered) < MaxRegistered
    /\ created < MaxCreated
    /\ LET instance == new(parser_class, created)
       IN  _parsers' = setitem(_parsers, type_key(instance.class),
                               parser_class)
    /\ registered' = Append(registered, parser_class)
    /\ called' = [name |-> "register", arg |-> parser_class]
    /\ created' = created + 1
    /\ ret' = Some(parser_class)
    /\ raised' = None
    /\ RegistryFrame

\* QuestionParserRegistry.get_parser(key)
get_parser(key) ==
    /\ pc = "idle"
    /\ created < MaxCreated
    /\ IF ~contains(_parsers, key)
       THEN /\ raised' = KeyError(key)
            /\ ret' = None
            /\ created' = created
       ELSE /\ ret' = Some(new(getitem(_parsers, key), created))
            /\ raised' = None
            /\ created' = created + 1
    /\ called' = [name |-> "get_parser", arg |-> key]
    /\ UNCHANGED <<_parsers, registered>>
    /\ RegistryFrame

\* variant: the parser registered first is run last
instances_rotated(d, n) ==
    Tail([k \in 1..Len(d) |-> new(values(d)[k], n + k - 1)])
        \o <<new(values(d)[1], n)>>

\* variant: the instances come in the reverse of the dict's order
instances_reversed(d, n) ==
    [k \in 1..Len(d) |-> new(values(d)[Len(d) + 1 - k], n + k - 1)]

\* the instances get_all_parsers creates when n instances exist already
instances(d, n) == [k \in 1..Len(d) |-> new(values(d)[k], n + k - 1)]

\* QuestionParserRegistry.get_all_parsers()
get_all_parsers ==
    /\ pc = "idle"
    /\ created + Len(_parsers) <= MaxCreated
    /\ ret' = Some(instances(_parsers, created))
    /\ raised' = None
    /\ created' = created + Len(_parsers)
    /\ called' = [name |-> "get_all_parsers", arg |-> ""]
    /\ UNCHANGED <<_parsers, registered>>
    /\ RegistryFrame

\* QuestionParserRegistry.get_registered_types()
get_registered_types ==
    /\ pc = "idle"
    /\ ret' = Some(keys(_parsers))
    /\ raised' = None
    /\ called' = [name |-> "get_registered_types", arg |-> ""]
    /\ UNCHANGED <<_parsers, registered, created>>
    /\ RegistryFrame

\* the state the import of the module leaves: both classes registered, one
\* instance created by each register call
InitRegistry ==
    /\ docx_content = <<>>
    /\ lines = <<>>
    /\ sentences = <<>>
    /\ i = 0
    /\ questions = <<>>
    /\ pc = "idle"
    /\ raised = None
    /\ ret = None
    /\ draws = <<>>
    /\ _parsers = DefaultParsers
    /\ registered = <<"MultipleChoiceParser", "TrueFalseParser">>
    /\ called = [name |-> "register", arg |-> "TrueFalseParser"]
    /\ created = Len(registered)
    /\ question_type = None
    /\ parser = None
    /\ parsers = <<>>
    /\ docx_questions = <<>>
    /\ outputs = <<>>
    /\ first = None
    /\ NoValidator
    /\ NoTester

NextRegistry ==
    \/ \E parser_class \in ParserClasses : register(parser_class)
    \/ \E key \in TypeKeys : get_parser(key)
    \/ get_all_parsers
    \/ get_registered_types

SpecRegistry == InitRegistry /\ [][NextRegistry]_vars

-----------------------------------------------------------------------------
(* MultipleChoiceParser.parse on every input of MCInputs *)

InitMC ==
    /\ docx_content = <<>>
    /\ lines \in MCInputs
    /\ sentences = <<>>
    /\ i = 0
    /\ questions = <<>>
    /\ pc = "ready_mc"
    /\ raised = None
    /\ ret = None
    /\ draws = <<>>
    /\ _parsers = DefaultParsers
    /\ registered = <<"MultipleChoiceParser", "TrueFalseParser">>
    /\ called = [name |-> "register", arg |-> "TrueFalseParser"]
    /\ created = Len(registered) + 1
    /\ question_type = None
    /\ parser = new("MultipleChoiceParser", Len(registered))
    /\ parsers = <<>>
    /\ docx_questions = <<>>
    /\ outputs = <<>>
    /\ first = None
    /\ NoValidator
    /\ NoTester

NextMC ==
    \/ MultipleChoiceParser_parse
    \/ MC_skip_line
    \/ MC_question
    \/ MC_return

SpecMC == InitMC /\ [][NextMC]_vars

-----------------------------------------------------------------------------
(* TrueFalseParser.parse on every input of TFInputs *)

InitTF ==
    /\ docx_content = <<>>
    /\ lines \in TFInputs
    /\ sentences = <<>>
    /\ i = 0
    /\ questions = <<>>
    /\ pc = "ready_tf"
    /\ raised = None
    /\ ret = None
    /\ draws = <<>>
    /\ _parsers = DefaultParsers
    /\ registered = <<"MultipleChoiceParser", "TrueFalseParser">>
    /\ called = [name |-> "register", arg |-> "TrueFalseParser"]
    /\ created = Len(registered) + 1
    /\ question_type = None
    /\ parser = new("TrueFalseParser", Len(registered))
    /\ parsers = <<>>
    /\ docx_questions = <<>>
    /\ outputs = <<>>
    /\ first = None
    /\ NoValidator
    /\ NoTester

NextTF ==
    \/ TrueFalseParser_parse
    \/ TF_skip_sentence
    \/ TF_assumption
    \/ TF_return

SpecTF == InitTF /\ [][NextTF]_vars

-----------------------------------------------------------------------------
(* Either extractor on its inputs *)

Init == InitMC \/ InitTF

Next == NextMC \/ NextTF

Spec == Init /\ [][Next]_vars

-----------------------------------------------------------------------------
(* parse_docx_questions *)

\* text.split("\n")
RECURSIVE split(_)
split(text) ==
    LET breaks == {p \in 1..Len(text) : text[p] = "\n"}
    IN  IF breaks = {} THEN <<text>>
        ELSE <<SubSeq(text, 1, Min(breaks) - 1)>>
             \o split(SubSeq(text, Min(breaks) + 1, Len(text)))

\* [line.strip() for line in text.split("\n") if line.strip()]
normalize(text) ==
    SelectSeq([k \in 1..Len(split(text)) |-> strip(split(text)[k])],
              LAMBDA line : line # <<>>)

\* "\n".join(lns): the text of a document with these lines
RECURSIVE Text(_)
Text(lns) ==
    IF lns = <<>> THEN <<>>
    ELSE IF Len(lns) = 1 THEN lns[1]
    ELSE lns[1] \o <<"\n">> \o Text(Tail(lns))

\* Lines of the documents: a prompt that is an assumption sentence, an
\* assumption sentence with blanks around it, an empty line
L_PromptAssume == <<"A","s","s","u","m","e"," ","W","?">>
T_Padded == <<" ","A","s","s","u","m","e"," ","X","."," ">>
EmptyLine == <<>>

\* what a document starts with
DocHeads == {<<>>, <<T_Assume>>}

\* the question block of a document: none, one without and one with a
\* 'Correct Answer' line, one whose prompt is an assumption sentence, and a
\* marker that nothing follows
DocBlocks ==
    {<<>>, Block1, Append(Block1, L_CorrectB),
     <<L_Question, L_PromptAssume, L_A, L_B, L_C, L_D>>, <<L_Question>>}

\* what follows the block: at most MaxDocTail lines
DocTails ==
    UNION {[1..n -> {T_Assume, T_CorrectTrue, T_Padded, EmptyLine}] :
              n \in 0..MaxDocTail}

\* the texts of the documents
DocTexts ==
    {Text(h \o b \o t) : h \in DocHeads, b \in DocBlocks, t \in DocTails}

\* the question types asked for
QuestionTypes ==
    {"all", "multiple_choice", "true_false", "custom", "unknown_type"}

\* variant: the types of the command line, whatever the registry holds
valid_types_fixed(registered_types) ==
    <<"multiple_choice", "true_false", "all">>

\* registered_types + ["all"]
valid_types(registered_types) == registered_types \o <<"all">>

\* ValueError(f"Invalid question_type '{question_type}'. Must be one of
\* {valid_types}")
InvalidType(type, valid) ==
    [error |-> "Invalid question_type", question_type |-> type,
     valid_types |-> valid]

\* the elements of a sequence
Range(seq) == {seq[k] : k \in 1..Len(seq)}

\* the call of parse_docx_questions up to its loop: the check of the type,
\* the lines of the document, the parsers to run
parse_docx_questions(type) ==
    /\ pc = "idle"
    /\ question_type = None
    /\ question_type' = Some(type)
    /\ IF type \notin Range(valid_types(keys(_parsers)))
       THEN /\ pc' = "raised"
            /\ raised' = InvalidType(type, valid_types(keys(_parsers)))
            /\ UNCHANGED <<lines, parsers, created, ret, docx_questions>>
       ELSE /\ pc' = "dispatch"
            /\ lines' = normalize(docx_content)
            /\ docx_questions' = <<>>
            /\ IF type = "all"
               THEN /\ parsers' = instances(_parsers, created)
                    /\ created' = created + Len(_parsers)
               ELSE /\ parsers' = <<new(getitem(_parsers, type), created)>>
                    /\ created' = created + 1
            /\ UNCHANGED <<raised, ret>>
    /\ UNCHANGED <<docx_content, sentences, i, questions, draws, _parsers,
                   registered, called, parser, outputs, first, validator, tester>>

\* parser.parse(lines) is called for the next parser
Docx_call_parse ==
    /\ pc = "dispatch"
    /\ parsers # <<>>
    /\ parser' = Head(parsers)
    /\ pc' = CASE Head(parsers).class = "MultipleChoiceParser" -> "ready_mc"
               [] Head(parsers).class = "TrueFalseParser" -> "ready_tf"
               [] OTHER -> "ready_custom"
    /\ UNCHANGED <<docx_content, lines, sentences, i, questions, raised,
                   ret, draws, registry, question_type, parsers,
                   docx_questions, outputs, first, validator, tester>>

\* CustomParser.parse(lines) of test_custom_parser_registration
CustomParser_parse ==
    /\ pc = "ready_custom"
    /\ pc' = "returned"
    /\ ret' = Some(<<[question |-> <<"c","u","s","t","o","m">>,
                      type |-> "custom"]>>)
    /\ UNCHANGED <<lines, sentences, i, questions, raised, draws,
                   registry, dispatch, first, validator, tester>>

\* questions.extend(parser.parse(lines)) with the list the parser returned
Docx_extend ==
    /\ pc = "returned"
    /\ question_type # None
    /\ docx_questions' = docx_questions \o ret.value
    /\ outputs' = Append(outputs,
           [class |-> parser.class, ret |-> ret.value, upto |-> Len(draws)])
    /\ parsers' = Tail(parsers)
    /\ pc' = "dispatch"
    /\ UNCHANGED <<docx_content, lines, sentences, i, questions, raised,
                   ret, draws, registry, question_type, parser, first, validator, tester>>

\* return questions
Docx_return ==
    /\ pc = "dispatch"
    /\ parsers = <<>>
    /\ pc' = "done"
    /\ ret' = Some(docx_questions)
    /\ UNCHANGED <<lines, sentences, i, questions, raised, draws,
                   registry, dispatch, first, validator, tester>>

\* the call is over and its outcome is kept; the next call on the same
\* document can begin
Docx_again ==
    /\ pc \in {"done", "raised"}
    /\ question_type # None
    /\ first = None
    /\ first' = Some([question_type |-> question_type.value, ret |-> ret,
                      raised |-> raised, draws |-> draws,
                      outputs |-> outputs, lines |-> lines])
    /\ pc' = "idle"
    /\ question_type' = None
    /\ parser' = None
    /\ parsers' = <<>>
    /\ outputs' = <<>>
    /\ draws' = <<>>
    /\ ret' = None
    /\ raised' = None
    /\ UNCHANGED <<docx_content, lines, sentences, i, questions, registry,
                   docx_questions>>
    /\ UNCHANGED <<validator, tester>>

\* the draws a parser consumed in a call: those between the return of the
\* parser before it and its own
DrawsOf(outs, k, ds) ==
    SubSeq(ds, IF k = 1 THEN 1 ELSE outs[k - 1].upto + 1, outs[k].upto)

\* the draws the parser of a class consumed in the first call, or <<>>
FirstDrawsOf(class) ==
    IF first = None THEN <<>>
    ELSE LET outs == first.value.outputs
             at == {k \in 1..Len(outs) : outs[k].class = class}
         IN  IF at = {} THEN <<>>
             ELSE DrawsOf(outs, Min(at), first.value.draws)

\* The random source is seeded in the second call as in the first: a parser
\* that draws its n-th value gets the n-th value it drew in the first call,
\* as far as it drew any.
SameSeed ==
    (first # None /\ parser # None /\ draws' # draws) =>
        LET n == Len(draws) -
                 (IF outputs = <<>> THEN 0 ELSE outputs[Len(outputs)].upto)
            seeded == FirstDrawsOf(parser.class)
        IN  n < Len(seeded) => draws'[Len(draws')] = seeded[n + 1]

\* the registry when CustomParser has been registered after the import
CustomRegistered ==
    setitem(DefaultParsers, type_key("CustomParser"), "CustomParser")

InitDocx ==
    /\ docx_content \in DocTexts
    /\ lines = <<>>
    /\ sentences = <<>>
    /\ i = 0
    /\ questions = <<>>
    /\ pc = "idle"
    /\ raised = None
    /\ ret = None
    /\ draws = <<>>
    /\ \/ /\ _parsers = DefaultParsers
          /\ registered = <<"MultipleChoiceParser", "TrueFalseParser">>
          /\ called = [name |-> "register", arg |-> "TrueFalseParser"]
       \/ /\ _parsers = CustomRegistered
          /\ registered = <<"MultipleChoiceParser", "TrueFalseParser",
                            "CustomParser">>
          /\ called = [name |-> "register", arg |-> "CustomParser"]
    /\ created = Len(registered)
    /\ question_type = None
    /\ parser = None
    /\ parsers = <<>>
    /\ docx_questions = <<>>
    /\ outputs = <<>>
    /\ first = None
    /\ NoValidator
    /\ NoTester

NextDocx ==
    /\ \/ \E type \in QuestionTypes : parse_docx_questions(type)
       \/ Docx_call_parse
       \/ MultipleChoiceParser_parse
       \/ MC_skip_line
       \/ MC_question
       \/ MC_return
       \/ TrueFalseParser_parse
       \/ TF_skip_sentence
       \/ TF_assumption
       \/ TF_return
       \/ CustomParser_parse
       \/ Docx_extend
       \/ Docx_return
       \/ Docx_again
    /\ SameSeed

SpecDocx == InitDocx /\ [][NextDocx]_vars

-----------------------------------------------------------------------------
(* parse_assumption_questions on the same prose wrapped in two ways *)

\* the inputs: every list of at most MaxRewrapLines lines of TFVocab
RewrapInputs == UNION {[1..n -> TFVocab] : n \in 0..MaxRewrapLines}

\* the line lists with line k of lns and the one after it made one line
Merged(lns, k) ==
    SubSeq(lns, 1, k - 1) \o <<lns[k] \o <<" ">> \o lns[k + 1]>>
    \o SubSeq(lns, k + 2, Len(lns))

\* the line list with line k of lns broken at the blank at position p
Broken(lns, k, p) ==
    SubSeq(lns, 1, k - 1)
    \o <<SubSeq(lns[k], 1, p - 1), SubSeq(lns[k], p + 1, Len(lns[k]))>>
    \o SubSeq(lns, k + 1, Len(lns))

\* the single blanks inside a line
Blanks(line) ==
    {p \in 2..(Len(line) - 1) :
        line[p] = " " /\ ~IsSpace(line[p - 1]) /\ ~IsSpace(line[p + 1])}

\* the same prose with one line break less or one more: the lines stay
\* stripped and not empty, and their join with single blanks is the same
Rewrappings(lns) ==
    {Merged(lns, k) : k \in 1..(Len(lns) - 1)}
    \cup UNION {{Broken(lns, k, p) : p \in Blanks(lns[k])} : k \in 1..Len(lns)}

\* parse_assumption_questions has returned; it is called again with the
\* same prose wrapped in another way
Rewrap ==
    /\ pc = "returned"
    /\ question_type = None
    /\ first = None
    /\ parser.class = "TrueFalseParser"
    /\ \E wrapped \in Rewrappings(lines) : lines' = wrapped
    /\ first' = Some([question_type |-> type_key(parser.class), ret |-> ret,
                      raised |-> raised, draws |-> draws,
                      outputs |-> <<[class |-> parser.class,
                                     ret |-> ret.value,
                                     upto |-> Len(draws)]>>,
                      lines |-> lines])
    /\ parser' = new("TrueFalseParser", created)
    /\ created' = created + 1
    /\ pc' = "ready_tf"
    /\ draws' = <<>>
    /\ ret' = None
    /\ UNCHANGED <<docx_content, sentences, i, questions, raised, _parsers,
                   registered, called, question_type, parsers, docx_questions,
                   outputs>>
    /\ UNCHANGED <<validator, tester>>

InitRewrap ==
    /\ docx_content = <<>>
    /\ lines \in RewrapInputs
    /\ sentences = <<>>
    /\ i = 0
    /\ questions = <<>>
    /\ pc = "ready_tf"
    /\ raised = None
    /\ ret = None
    /\ draws = <<>>
    /\ _parsers = DefaultParsers
    /\ registered = <<"MultipleChoiceParser", "TrueFalseParser">>
    /\ called = [name |-> "register", arg |-> "TrueFalseParser"]
    /\ created = Len(registered) + 1
    /\ question_type = None
    /\ parser = new("TrueFalseParser", Len(registered))
    /\ parsers = <<>>
    /\ docx_questions = <<>>
    /\ outputs = <<>>
    /\ first = None
    /\ NoValidator
    /\ NoTester

NextRewrap ==
    /\ \/ TrueFalseParser_parse
       \/ TF_skip_sentence
       \/ TF_assumption
       \/ TF_return
       \/ Rewrap
    /\ SameSeed

SpecRewrap == InitRewrap /\ [][NextRewrap]_vars

-----------------------------------------------------------------------------
(* Properties of the multiple-choice extractor *)

\* the scan stands on a marker line
AtMarker == pc = "mc_scan" /\ i < Len(lines) /\ IsMarker(At(lines, i))

\* the text of a line after its label and delimiter, trimmed
LabelText(line) == strip(SubSeq(line, 3, Len(line)))

\* the line carries the label: the letter in either case, '.' or ')', a text
IsLabelled(label, line) ==
    /\ Len(line) >= 3
    /\ line[1] \in {label, LowerChar(label)}
    /\ line[2] \in {".", ")"}
    /\ LabelText(line) # <<>>

\* the answer positions (1..4) after the prompt of the marker at index k that
\* are past the end of the input or do not carry their label
BadPositions(k) ==
    {j \in 1..4 : IF k + 1 + j >= Len(lines) THEN TRUE
                  ELSE ~IsLabelled(ANSWER_LABELS[j], At(lines, k + 1 + j))}

\* marker, prompt and the four labelled lines A, B, C, D follow each other
BlockAt(k) == k + 1 < Len(lines) /\ BadPositions(k) = {}

\* the step appends exactly one record and leaves the earlier ones alone
AppendsOne ==
    /\ Len(questions') = Len(questions) + 1
    /\ SubSeq(questions', 1, Len(questions)) = questions

NewRecord == questions'[Len(questions')]

\* the index of an answer letter
LetterIndex(c) ==
    CASE LowerChar(c) = "a" -> 0 [] LowerChar(c) = "b" -> 1
      [] LowerChar(c) = "c" -> 2 [] LowerChar(c) = "d" -> 3

RecordInRange(q) ==
    /\ q.correct_answer \in 0..(Len(q.answers) - 1)
    /\ q.type = "multiple_choice" => q.correct_answer \in 0..3
    /\ q.type = "true_false" => q.correct_answer \in 0..1

\* C1: every record, in the list being built and in the list returned, has
\* a correct_answer that is an index into its answers: 0..3 for a
\* multiple_choice record, 0..1 for a true_false record.
C1_CorrectAnswerInRange ==
    /\ \A k \in DOMAIN questions : RecordInRange(questions[k])
    /\ ret # None => \A k \in DOMAIN ret.value : RecordInRange(ret.value[k])

\* a returned list with a true_false record whose answer was first taken from
\* the next sentence (False) and then overwritten by a leading fragment (True),
\* and a record with a random answer
C1_Witness ==
    /\ pc = "returned"
    /\ lines = <<T_Assume, T_correct_f, T_CorrectTrue, T_ASSUME>>
    /\ ret.value[1].correct_answer = 0
    /\ draws = <<1>>

\* C2: when the scan stands on the marker of a block (marker, prompt, four
\* lines labelled A, B, C, D, '.' or ')', either case), the step appends
\* exactly one record, with exactly 4 answers, the k-th being the trimmed
\* text of the k-th labelled line.
C2_AnswersInLabelOrder ==
    [][ (AtMarker /\ BlockAt(i)) =>
          /\ AppendsOne
          /\ Len(NewRecord.answers) = 4
          /\ \A j \in 1..4 :
                NewRecord.answers[j] = LabelText(At(lines, i + 1 + j))
          /\ NewRecord.question = At(lines, i + 1)
          /\ NewRecord.type = "multiple_choice" ]_vars

\* the block with lower-case labels and ')' was parsed
C2_Witness ==
    /\ pc = "returned"
    /\ Len(lines) >= 6
    /\ SubSeq(lines, 1, 6) = Block2
    /\ Len(ret.value) = 1
    /\ ret.value[1].answers = AnswerTexts

\* C3: when the scan stands on a marker followed by a prompt and one of the
\* four answer positions is past the end of the input or holds a line without
\* the label expected there, the step raises an error that names the first
\* such label and carries the excerpt of the prompt; nothing is returned.
C3_ErrorNamesFirstMissingLabel ==
    [][ (AtMarker /\ i + 1 < Len(lines) /\ BadPositions(i) # {}) =>
          /\ pc' = "raised"
          /\ IsError(raised')
          /\ \E j \in BadPositions(i) :
                /\ \A b \in BadPositions(i) : j <= b
                /\ raised'.label = ANSWER_LABELS[j]
          /\ raised'.excerpt = Prefix(At(lines, i + 1), ExcerptLen)
          /\ ret' = None ]_vars

\* a line labelled C stands where B is expected: the error names B
C3_Witness ==
    /\ pc = "raised"
    /\ Len(lines) >= 6
    /\ SubSeq(lines, 1, 6) = [Block1 EXCEPT ![4] = L_C]
    /\ raised.label = "B"
    /\ raised.found = L_C

\* C4: no multiple_choice record has other than 4 answers, a record is
\* appended only by a step from a marker with its prompt and four labelled
\* answers, and a call that raised returns no list, whatever it had built.
C4_NoPartialRecord ==
    /\ [](/\ \A k \in DOMAIN questions :
               questions[k].type = "multiple_choice"
                   => Len(questions[k].answers) = 4
          /\ ret # None =>
               /\ raised = None
               /\ \A k \in DOMAIN ret.value : Len(ret.value[k].answers) = 4
          /\ pc = "raised" => (ret = None /\ IsError(raised)))
    /\ [][ questions' # questions =>
              (AtMarker /\ BlockAt(i) /\ AppendsOne) ]_vars

\* an error after a block was completed: the record built is not returned
C4_Witness ==
    /\ pc = "raised"
    /\ Len(questions) = 1
    /\ ret = None

AnnotatedAt(k) ==
    IF k + 6 < Len(lines)
    THEN MC_CORRECT_PATTERN(strip(At(lines, k + 6))).matched
    ELSE FALSE

\* C6: for a block that is parsed, correct_answer is the index of the
\* annotated letter, the annotation line is consumed and no random value is
\* drawn if the line after the fourth answer is a 'Correct Answer' line;
\* otherwise correct_answer is the random value drawn, in 0..3, and the scan
\* resumes at that line.
C6_ExplicitOrRandomAnswer ==
    [][ (AtMarker /\ BlockAt(i)) =>
          /\ AppendsOne
          /\ IF AnnotatedAt(i)
             THEN /\ NewRecord.correct_answer = LetterIndex(
                        MC_CORRECT_PATTERN(strip(At(lines, i + 6))).g1[1])
                  /\ i' = i + 7
                  /\ draws' = draws
             ELSE /\ NewRecord.correct_answer \in 0..3
                  /\ draws' = Append(draws, NewRecord.correct_answer)
                  /\ i' = i + 6 ]_vars

\* the annotation names letter a: the answer is 0, nothing was drawn
C6_Witness ==
    /\ pc = "returned"
    /\ lines = Append(Block1, L_correct_a)
    /\ ret.value[1].correct_answer = 0
    /\ draws = <<>>
    /\ i = 7

-----------------------------------------------------------------------------
(* Properties of the true/false extractor *)

\* the sentence unit holds "assume" as a whole word
IsAssumption(sentence) == ASSUME_PATTERN(strip(sentence))

\* the scan stands on an assumption sentence
AtAssumption ==
    pc = "tf_scan" /\ i < Len(sentences) /\ IsAssumption(At(sentences, i))

\* the index of a true/false token: True/T is 0, False/F is 1
TokenIndex(token) == IF LowerChar(token[1]) = "t" THEN 0 ELSE 1

\* the sentence unit without its leading 'Correct Answer' fragment
Remainder(sentence) ==
    LET m == LEADING_PATTERN(strip(sentence))
    IN  IF m.matched THEN strip(m.g2) ELSE strip(sentence)

\* the question text of an assumption sentence: its remainder, cut before a
\* trailing fragment with the period restored
QuestionText(sentence) ==
    LET m == TRAILING_PATTERN(Remainder(sentence))
    IN  IF m.matched THEN Append(strip(m.g1), ".") ELSE Remainder(sentence)

\* the assumption sentences among the first n sentences, in order
Assumptions(n) == SelectSeq(SubSeq(sentences, 1, n), IsAssumption)

\* C7: the records are, one for one and in order, the sentence units with the
\* whole word "assume": during the scan for the sentences passed, and in the
\* list returned for all of them; each has the answers ["True", "False"].
\* Sentences with only "assumed" have no record.
C7_OneRecordPerAssumption ==
    /\ pc = "tf_scan" =>
         /\ i <= Len(sentences) + 1
         /\ Len(questions) = Len(Assumptions(IF i > Len(sentences)
                                             THEN Len(sentences) ELSE i))
    /\ pc = "returned" /\ sentences # <<>> =>
         /\ Len(ret.value) = Len(Assumptions(Len(sentences)))
         /\ \A k \in DOMAIN ret.value :
               /\ ret.value[k].question =
                      QuestionText(Assumptions(Len(sentences))[k])
               /\ ret.value[k].answers =
                      << <<"T","r","u","e">>, <<"F","a","l","s","e">> >>
               /\ ret.value[k].type = "true_false"

\* the annotation sentence after the first assumption sentence is itself an
\* assumption sentence: both have a record, the "assumed" sentence has none
C7_Witness ==
    /\ pc = "returned"
    /\ lines = <<T_Assume, T_CorrectTrue, T_ASSUME, T_assumed>>
    /\ Len(sentences) = 3
    /\ Len(ret.value) = 2

\* C8: when the scan stands on an assumption sentence that begins with a
\* 'Correct Answer <token>' fragment, whitespace and further text, the step
\* sets the correct_answer of the last record, if there is one, to the index
\* of the token and raises nothing; the record appended has a question text
\* made of the remainder only, and its correct_answer comes from the
\* remainder's trailing fragment, else from the next sentence's annotation,
\* else from the random draw.
C8_LeadingFragment ==
    [][ (AtAssumption /\ LEADING_PATTERN(strip(At(sentences, i))).matched) =>
          LET s == strip(At(sentences, i))
              n == Len(questions)
              tail == TRAILING_PATTERN(Remainder(s))
              next == IF i + 1 < Len(sentences)
                      THEN TF_CORRECT_PATTERN(strip(At(sentences, i + 1)))
                      ELSE NoMatch
          IN  /\ pc' = "tf_scan"
              /\ Len(questions') = n + 1
              /\ n > 0 =>
                   /\ questions'[n].correct_answer =
                          TokenIndex(LEADING_PATTERN(s).g1)
                   /\ questions'[n].question = questions[n].question
              /\ NewRecord.question = QuestionText(s)
              /\ NewRecord.correct_answer =
                     IF tail.matched THEN TokenIndex(tail.g2)
                     ELSE IF next.matched THEN TokenIndex(next.g1)
                     ELSE draws'[Len(draws')]
              /\ Len(draws') = Len(draws) +
                     (IF tail.matched \/ next.matched THEN 0 ELSE 1) ]_vars

\* the first record took False from the sentence after it; the leading
\* fragment of the third sentence made it True; the third sentence's own
\* record holds the draw
C8_Witness ==
    /\ pc = "returned"
    /\ lines = <<T_Assume, T_correct_f, T_CorrectTrue, T_Assume>>
    /\ Len(sentences) = 3
    /\ ret.value[1].correct_answer = 0
    /\ ret.value[2].question = T_Assume
    /\ ret.value[2].correct_answer = 1
    /\ draws = <<1>>

\* C9: when the scan stands on an assumption sentence whose remainder ends
\* with '.' and a 'Correct Answer <token>' fragment, the step appends exactly
\* one record, whose question text is the part before the fragment with the
\* period restored and whose correct_answer is the index of that token; no
\* random value is drawn and the scan advances by one sentence.
C9_TrailingFragment ==
    [][ (AtAssumption
         /\ TRAILING_PATTERN(Remainder(At(sentences, i))).matched) =>
          LET m == TRAILING_PATTERN(Remainder(At(sentences, i)))
          IN  /\ Len(questions') = Len(questions) + 1
              /\ NewRecord.question = Append(strip(m.g1), ".")
              /\ NewRecord.correct_answer = TokenIndex(m.g2)
              /\ NewRecord.answers = ANSWERS
              /\ i' = i + 1
              /\ draws' = draws ]_vars

\* a sentence with a leading fragment (True, for the record before) and a
\* trailing fragment (False, its own)
C9_Witness ==
    /\ pc = "returned"
    /\ lines = <<T_Assume, T_CorrectTrue, T_Trailing>>
    /\ Len(ret.value) = 2
    /\ ret.value[1].correct_answer = 0
    /\ ret.value[2].question = <<"A","s","s","u","m","e"," ","Z",".">>
    /\ ret.value[2].correct_answer = 1
    /\ draws = <<>>

\* C10: when the scan stands on an assumption sentence that rule (b) does not
\* resolve: if the next sentence starts with a 'Correct Answer <token>'
\* annotation, the record's correct_answer is the index of that token,
\* nothing is drawn, and the scan resumes two sentences ahead if the next
\* sentence has no whole word "assume" and one ahead if it has; otherwise the
\* correct_answer is the random draw, in {0, 1}, and the scan resumes one
\* sentence ahead.
C10_NextSentenceAnnotation ==
    [][ (AtAssumption
         /\ ~TRAILING_PATTERN(Remainder(At(sentences, i))).matched) =>
          LET next == IF i + 1 < Len(sentences)
                      THEN TF_CORRECT_PATTERN(strip(At(sentences, i + 1)))
                      ELSE NoMatch
          IN  /\ Len(questions') = Len(questions) + 1
              /\ IF next.matched
                 THEN /\ NewRecord.correct_answer = TokenIndex(next.g1)
                      /\ draws' = draws
                      /\ i' = IF IsAssumption(At(sentences, i + 1))
                              THEN i + 1 ELSE i + 2
                 ELSE /\ NewRecord.correct_answer \in {0, 1}
                      /\ draws' = Append(draws, NewRecord.correct_answer)
                      /\ i' = i + 1 ]_vars

\* "Assume X." then "correct answer f.": one record with answer 1, the
\* annotation sentence was passed over together with its assumption sentence
C10_Witness ==
    /\ pc = "returned"
    /\ lines = <<T_Assume, T_correct_f>>
    /\ i = 2
    /\ ret.value = <<create_question_dict(T_Assume, ANSWERS, "true_false", 1)>>
    /\ draws = <<>>

-----------------------------------------------------------------------------
(* Properties of both extractors: what a step leaves alone *)

\* the record at position k is the same but for its correct_answer
SameButAnswer(k) ==
    /\ questions'[k].question = questions[k].question
    /\ questions'[k].answers = questions[k].answers
    /\ questions'[k].type = questions[k].type

\* C11: a step of a scan keeps every record appended so far: question,
\* answers and type of each, and every field of each but the last. The
\* correct_answer of the last one changes only in a step of the true/false
\* scan on a sentence with a leading fragment, to the index of its token; a
\* step of the multiple-choice scan changes no record.
C11_RecordsImmutable ==
    [][ (pc = "mc_scan" \/ pc = "tf_scan") =>
          /\ Len(questions') >= Len(questions)
          /\ \A k \in 1..Len(questions) :
                /\ SameButAnswer(k)
                /\ k < Len(questions) => questions'[k] = questions[k]
                /\ pc = "mc_scan" => questions'[k] = questions[k]
                /\ questions'[k] # questions[k] =>
                      /\ AtAssumption
                      /\ LEADING_PATTERN(strip(At(sentences, i))).matched
                      /\ questions'[k].correct_answer = TokenIndex(
                             LEADING_PATTERN(strip(At(sentences, i))).g1) ]_vars

\* the first record held False, from the sentence after it, until the leading
\* fragment of the third sentence made it True
C11_Witness ==
    /\ pc = "tf_scan"
    /\ lines = <<T_Assume, T_correct_f, T_CorrectTrue, T_ASSUME>>
    /\ i = Len(sentences)
    /\ Len(questions) = 2
    /\ questions[1].question = T_Assume
    /\ questions[1].correct_answer = 0

-----------------------------------------------------------------------------
(* Properties of the true/false extractor: no error *)

\* the annotation the sentence at index k takes from the sentence after it
NextAnnotation(k) ==
    IF k + 1 < Len(sentences)
    THEN TF_CORRECT_PATTERN(strip(At(sentences, k + 1)))
    ELSE NoMatch

\* C12: TrueFalseParser.parse raises nothing and returns a list of records:
\* no step raises, every step of the scan moves it forward or returns the
\* list built, an assumption sentence without annotation takes the random
\* draw, and a leading fragment met while the list is empty is dropped from
\* the record's text and changes nothing else.
C12_TrueFalseNeverRaises ==
    /\ [](pc # "raised" /\ raised = None)
    /\ [](pc = "returned" =>
             /\ ret # None
             /\ \A k \in 1..Len(ret.value) : ret.value[k].type = "true_false")
    /\ [][pc = "tf_scan" =>
             \/ pc' = "returned" /\ ret' = Some(questions)
             \/ pc' = "tf_scan" /\ i' > i]_vars
    /\ [][(/\ AtAssumption
           /\ ~TRAILING_PATTERN(Remainder(At(sentences, i))).matched
           /\ ~NextAnnotation(i).matched) =>
             /\ Len(draws') = Len(draws) + 1
             /\ NewRecord.correct_answer = draws'[Len(draws')]]_vars
    /\ [][(/\ AtAssumption
           /\ questions = <<>>
           /\ LEADING_PATTERN(strip(At(sentences, i))).matched) =>
             /\ Len(questions') = 1
             /\ questions'[1].question = QuestionText(At(sentences, i))
             /\ pc' = "tf_scan"]_vars

\* the input begins with an annotation that has no record to go to and ends
\* with one: the only record is the text between them, with the answer of
\* the last sentence
C12_Witness ==
    /\ pc = "returned"
    /\ lines = <<T_CorrectTrue, T_Assume, T_CorrectTrue>>
    /\ Len(sentences) = 2
    /\ ret.value = <<create_question_dict(T_Assume, ANSWERS, "true_false", 0)>>
    /\ draws = <<>>

-----------------------------------------------------------------------------
(* Properties of both extractors: the texts of a record *)

\* a line as parse_docx_questions hands it on: stripped and not empty
IsNormalized(line) == line # <<>> /\ strip(line) = line

\* a label line without text: the letter and its delimiter
IsBareLabel(line) ==
    /\ Len(line) = 2
    /\ LowerChar(line[1]) \in {"a", "b", "c", "d"}
    /\ line[2] \in {".", ")"}

\* C19: with normalized lines, the question of every record is a non-empty
\* text and so is each of its answers, in the list under construction and in
\* the list returned; a marker followed by a prompt and, among the next four
\* lines, a label without text ends in the error and appends nothing.
C19_NonEmptyTexts ==
    /\ []((\A n \in 1..Len(lines) : IsNormalized(lines[n])) =>
            /\ \A k \in 1..Len(questions) :
                  /\ strip(questions[k].question) # <<>>
                  /\ \A a \in 1..Len(questions[k].answers) :
                        strip(questions[k].answers[a]) # <<>>
            /\ ret # None => ret.value = questions)
    /\ [][(/\ AtMarker
           /\ \E k \in 1..NUM_ANSWERS :
                 /\ i + 1 + k < Len(lines)
                 /\ IsBareLabel(At(lines, i + 1 + k))) =>
             /\ pc' = "raised"
             /\ questions' = questions]_vars

\* a block whose first answer line is the bare label "A." has ended in the
\* error that quotes the line
C19_Witness ==
    /\ pc = "raised"
    /\ Len(lines) >= 3
    /\ lines[3] = L_Abare
    /\ raised = ImproperAnswer(lines[2], "A", L_Abare)

-----------------------------------------------------------------------------
(* Properties of the true/false extractor: wrapped lines *)

\* C20: two line lists of stripped, non-empty lines with the same join give
\* the same records: when the prose is wrapped anew and parsed again with the
\* random source seeded alike, the same draws are consumed and the same list
\* is returned; an assumption sentence broken over two lines has one record
\* with the sentence in one piece.
C20_RewrapInvariant ==
    /\ [](first # None =>
            /\ lines # first.value.lines
            /\ Join(lines) = Join(first.value.lines)
            /\ \A n \in 1..Len(lines) : IsNormalized(lines[n]))
    /\ [](pc = "returned" /\ first # None =>
            /\ draws = first.value.draws
            /\ ret = first.value.ret)

\* "Assume X." and its annotation, then the same with the sentence broken
\* after "Assume": one record, "Assume X." with answer True, both times
C20_Witness ==
    /\ pc = "returned"
    /\ first # None
    /\ first.value.lines = <<T_Assume, T_CorrectTrue>>
    /\ lines = <<SubSeq(T_Assume, 1, 6), SubSeq(T_Assume, 8, 9), T_CorrectTrue>>
    /\ ret.value = <<create_question_dict(T_Assume, ANSWERS, "true_false", 0)>>

-----------------------------------------------------------------------------
(* Properties of parse_docx_questions *)

\* the classes of a list of instances
ClassesOf(list) == [k \in 1..Len(list) |-> list[k].class]

\* the question_type property of the instances of a class
QuestionTypeOf(class) ==
    CASE class = "MultipleChoiceParser" -> "multiple_choice"
      [] class = "TrueFalseParser" -> "true_false"
      [] OTHER -> "custom"

\* the records of one type, in order
OfType(list, type) == SelectSeq(list, LAMBDA q : q.type = type)

\* the lists the parsers returned, one after the other
RECURSIVE Concatenated(_)
Concatenated(outs) ==
    IF outs = <<>> THEN <<>>
    ELSE Head(outs).ret \o Concatenated(Tail(outs))

\* the place of the parser registered under a key among the outputs of a
\* call, or 0
OutputOf(outs, key) ==
    IF \E k \in 1..Len(outs) : type_key(outs[k].class) = key
    THEN Min({k \in 1..Len(outs) : type_key(outs[k].class) = key})
    ELSE 0

\* a call with 'all' that returned and a call with one key on the same
\* document: the parser of that key consumed the same draws and returned
\* the same list in both, and that list holds the records of its type
AloneAsInAll(all_ret, all_outs, all_draws, key, one_ret, one_draws) ==
    LET k == OutputOf(all_outs, key)
    IN  /\ k # 0
        /\ one_draws = DrawsOf(all_outs, k, all_draws)
        /\ one_ret = all_outs[k].ret
        /\ one_ret = OfType(all_ret, QuestionTypeOf(all_outs[k].class))

\* C16: a call with 'all' that returns has run one parser per entry of the
\* registry, in its order, each on the full list of lines, and returns their
\* lists one after the other: no true_false record comes before a
\* multiple_choice record. A call with one key on the same document, with
\* the random source seeded alike, returns what the parser of that key
\* contributed to the call with 'all', whichever call came first.
C16_AllIsConcatenation ==
    /\ [](pc = "done" /\ question_type = Some("all") =>
            /\ ClassesOf(outputs) = values(_parsers)
            /\ ret.value = Concatenated(outputs)
            /\ \A m \in 1..Len(ret.value) : \A n \in 1..Len(ret.value) :
                  (/\ ret.value[m].type = "true_false"
                   /\ ret.value[n].type = "multiple_choice") => n < m)
    /\ [](pc = "returned" /\ question_type # None =>
            lines = normalize(docx_content))
    /\ [](first # None /\ question_type # None /\ pc \in {"done", "raised"} =>
            LET one == first.value
            IN  /\ (/\ one.question_type = "all"
                    /\ one.ret # None
                    /\ contains(_parsers, question_type.value)) =>
                       /\ pc = "done"
                       /\ AloneAsInAll(one.ret.value, one.outputs, one.draws,
                              question_type.value, ret.value, draws)
                /\ (/\ pc = "done"
                    /\ question_type.value = "all"
                    /\ contains(_parsers, one.question_type)) =>
                       /\ one.ret # None
                       /\ AloneAsInAll(ret.value, outputs, draws,
                              one.question_type, one.ret.value, one.draws))

\* the document begins with an assumption sentence, holds a question block
\* and ends with an assumption sentence: the call with 'all' returned the
\* multiple_choice record first and the two true_false records after it, and
\* the call with 'true_false' returned those two
C16_Witness ==
    /\ pc = "done"
    /\ docx_content = Text(<<T_Assume>> \o Block1 \o <<T_Assume>>)
    /\ first # None
    /\ first.value.question_type = "all"
    /\ first.value.ret # None
    /\ Len(first.value.ret.value) = 3
    /\ first.value.ret.value[1].type = "multiple_choice"
    /\ question_type = Some("true_false")
    /\ ret.value = SubSeq(first.value.ret.value, 2, 3)

\* C17: parse_docx_questions accepts 'all' and the keys the registry holds
\* and nothing else: with any other type the call raises the ValueError that
\* names the type, creates no parser, reads no line and produces no record;
\* with an accepted type it goes on to run the parsers selected.
C17_TypeSelection ==
    /\ [][(pc = "idle" /\ question_type = None /\ question_type' # None) =>
            LET type == question_type'.value
            IN  IF type = "all" \/ contains(_parsers, type)
                THEN /\ pc' = "dispatch"
                     /\ raised' = None
                     /\ ClassesOf(parsers') =
                            IF type = "all" THEN values(_parsers)
                            ELSE <<getitem(_parsers, type)>>
                ELSE /\ pc' = "raised"
                     /\ IsError(raised')
                     /\ raised'.error = "Invalid question_type"
                     /\ raised'.question_type = type
                     /\ created' = created
                     /\ parsers' = <<>>
                     /\ lines' = lines
                     /\ docx_questions' = docx_questions
                     /\ outputs' = outputs
                     /\ ret' = ret]_vars
    /\ [][(pc = "raised" /\ IsError(raised)
           /\ raised.error = "Invalid question_type") =>
            pc' = "idle" /\ first' # None /\ first'.value.outputs = <<>>]_vars

\* 'custom' was asked for while only the two parsers of the module were
\* registered
C17_Witness ==
    /\ pc = "raised"
    /\ _parsers = DefaultParsers
    /\ question_type = Some("custom")
    /\ raised = InvalidType("custom",
                    <<"multiple_choice", "true_false", "all">>)
    /\ outputs = <<>>

\* the scan stands on an assumption sentence that has no annotation
Unannotated ==
    /\ AtAssumption
    /\ ~TRAILING_PATTERN(Remainder(At(sentences, i))).matched
    /\ ~NextAnnotation(i).matched

\* C18: two calls with the same type on the same document, the random source
\* seeded alike, end alike: the same lines, the same draws consumed, the same
\* list returned or the same error raised. The random source is consulted
\* only by a step that appends a record without explicit annotation, once,
\* and the record holds the value drawn.
C18_Deterministic ==
    /\ [](first # None /\ question_type # None /\ pc \in {"done", "raised"} =>
            (question_type.value = first.value.question_type =>
                /\ lines = first.value.lines
                /\ draws = first.value.draws
                /\ ret = first.value.ret
                /\ raised = first.value.raised
                /\ outputs = first.value.outputs))
    /\ [][((pc = "mc_scan" \/ pc = "tf_scan") /\ draws' # draws) =>
            /\ \/ AtMarker /\ ~AnnotatedAt(i)
               \/ Unannotated
            /\ Len(questions') = Len(questions) + 1
            /\ draws' = Append(draws, NewRecord.correct_answer)]_vars
    /\ [][((pc = "mc_scan" \/ pc = "tf_scan") /\ questions' # questions
           /\ draws' = draws) =>
            \/ AtMarker /\ AnnotatedAt(i)
            \/ AtAssumption /\ ~Unannotated]_vars

\* two calls with 'all' on a document with a block and an assumption
\* sentence, neither annotated: both consumed the same two draws and
\* returned the same two records
C18_Witness ==
    /\ pc = "done"
    /\ docx_content = Text(Block1 \o <<T_Assume>>)
    /\ first # None
    /\ first.value.question_type = "all"
    /\ question_type = Some("all")
    /\ Len(draws) = 2
    /\ draws = first.value.draws
    /\ Len(ret.value) = 2
    /\ ret = first.value.ret

-----------------------------------------------------------------------------
(* Properties of QuestionParserRegistry *)

\* the greatest element of a set of numbers
Max(S) == CHOOSE a \in S : \A b \in S : b <= a

\* the calls of register that registered under a key
RegistrationsOf(key) ==
    {k \in 1..Len(registered) : type_key(registered[k]) = key}

\* the keys registered so far
RegisteredKeys == {type_key(registered[k]) : k \in 1..Len(registered)}

\* the class most recently registered under a key
LastRegistered(key) == registered[Max(RegistrationsOf(key))]

\* the keys registered so far, each once, in the order of their first
\* registration
RegistrationOrder ==
    [n \in 1..Cardinality(RegisteredKeys) |->
        CHOOSE key \in RegisteredKeys :
            Cardinality({other \in RegisteredKeys :
                Min(RegistrationsOf(other)) < Min(RegistrationsOf(key))})
            = n - 1]

\* C13: registering under a key that is present overwrites the entry and does
\* not raise: the table holds, for every key registered so far, the class
\* registered last under it, get_parser returns an instance of that class,
\* and the table has as many keys as distinct keys were registered.
C13_LastWriteWins ==
    /\ [](/\ Len(_parsers) = Cardinality(RegisteredKeys)
          /\ \A key \in TypeKeys :
                contains(_parsers, key) <=> key \in RegisteredKeys
          /\ \A key \in RegisteredKeys :
                getitem(_parsers, key) = LastRegistered(key))
    /\ [][called'.name = "register" =>
             /\ raised' = None
             /\ registered' = Append(registered, called'.arg)
             /\ getitem(_parsers', type_key(called'.arg)) = called'.arg]_vars
    /\ [][(called'.name = "get_parser" /\ called'.arg \in RegisteredKeys) =>
             /\ raised' = None
             /\ ret' # None
             /\ ret'.value.class = LastRegistered(called'.arg)]_vars

\* "custom" was registered twice, with two classes, and get_parser has
\* returned an instance of the second
C13_Witness ==
    /\ registered = <<"MultipleChoiceParser", "TrueFalseParser",
                      "CustomParser", "CustomParser_again">>
    /\ called = [name |-> "get_parser", arg |-> "custom"]
    /\ ret # None
    /\ ret.value = new("CustomParser_again", Len(registered))

\* C14: get_parser(key) returns an instance of the registered class that no
\* earlier call has returned when the key is registered, and raises a
\* KeyError that names the key when it is not; the table is unchanged.
C14_GetParser ==
    [][called'.name = "get_parser" =>
          /\ _parsers' = _parsers
          /\ IF \E k \in 1..Len(_parsers) :
                    _parsers[k].type_key = called'.arg
             THEN /\ raised' = None
                  /\ ret' # None
                  /\ ret'.value.class = getitem(_parsers, called'.arg)
                  /\ ret'.value.id \notin 1..created
                  /\ ret'.value.id \in 1..created'
             ELSE /\ ret' = None
                  /\ IsError(raised')
                  /\ raised'.error = "KeyError"
                  /\ raised'.type_key = called'.arg]_vars

\* a call with an unknown key has failed after parsers were handed out
C14_Witness ==
    /\ called = [name |-> "get_parser", arg |-> "unknown_type"]
    /\ created > Len(registered) + 1
    /\ raised = KeyError("unknown_type")
    /\ ret = None

\* C15: get_all_parsers returns one instance for every registered key, in the
\* order of first registration, get_registered_types lists the same keys in
\* the same order, and a key registered again keeps its place and appears
\* once.
C15_RegistrationOrder ==
    /\ [](keys(_parsers) = RegistrationOrder)
    /\ [][called'.name = "get_registered_types" =>
             /\ ret' # None
             /\ ret'.value = RegistrationOrder]_vars
    /\ [][called'.name = "get_all_parsers" =>
             /\ ret' # None
             /\ Len(ret'.value) = Len(RegistrationOrder)
             /\ \A k \in 1..Len(ret'.value) :
                   /\ ret'.value[k].class = LastRegistered(RegistrationOrder[k])
                   /\ type_key(ret'.value[k].class) = keys(_parsers)[k]
                   /\ \A n \in 1..Len(ret'.value) :
                         ret'.value[n].id = ret'.value[k].id => n = k]_vars

\* "multiple_choice" was registered again after "custom", and get_all_parsers
\* has returned the three instances with multiple_choice still first
C15_Witness ==
    /\ registered = <<"MultipleChoiceParser", "TrueFalseParser",
                      "CustomParser", "MultipleChoiceParser">>
    /\ called = [name |-> "get_all_parsers", arg |-> ""]
    /\ ret # None
    /\ Len(ret.value) = Cardinality(RegisteredKeys)
    /\ ClassesOf(ret.value) =
           <<"MultipleChoiceParser", "TrueFalseParser", "CustomParser">>

-----------------------------------------------------------------------------
(* Properties of both extractors: the scan moves forward and ends *)

\* the call has returned its list or raised its error
Terminated == pc = "returned" \/ pc = "raised"

\* the index of a correct-answer line that ends the block of the marker at k
ConsumesAnnotation(k) == _find_correct_answer(lines, k + 2 + NUM_ANSWERS) # None

\* what is left to scan: the lines or sentences from the index on
Remaining == (IF pc = "mc_scan" THEN Len(lines) ELSE Len(sentences)) - i

\* C23: both scans only move forward and end on every input. An iteration of
\* the multiple-choice loop that does not raise adds 1 to the line index on a
\* line that is no marker and 6 or 7 on a marker (7 exactly when a correct
\* answer line is consumed), appends one record and stays within the input,
\* so no line of a consumed block is scanned as a marker; an iteration of the
\* true/false loop adds 1 or 2 to the sentence index; the index never
\* decreases. The index never passes the end of the input, every step of a
\* scan ends the call or leaves less to scan, and with nothing left the step
\* is the return: a call takes at most as many iterations as its input is
\* long.
C23_ForwardOnly ==
    /\ [][(pc = "mc_scan" /\ pc' = "mc_scan") =>
             IF IsMarker(At(lines, i))
             THEN /\ i' = (IF ConsumesAnnotation(i) THEN i + 7 ELSE i + 6)
                  /\ Len(questions') = Len(questions) + 1
             ELSE /\ i' = i + 1
                  /\ questions' = questions]_vars
    /\ [][(pc = "tf_scan" /\ pc' = "tf_scan") =>
             (i' = i + 1 \/ i' = i + 2)]_vars
    /\ [][i' >= i]_vars
    /\ []((pc = "mc_scan" \/ pc = "tf_scan") => Remaining >= 0)
    /\ [][(pc = "mc_scan" \/ pc = "tf_scan") =>
             \/ Terminated'
             \/ pc' = pc /\ Remaining' < Remaining]_vars
    /\ [][((pc = "mc_scan" \/ pc = "tf_scan") /\ Remaining = 0) =>
             pc' = "returned"]_vars

\* the prompt of the only block is itself a line that starts with "question":
\* the block and its correct-answer line are consumed in one iteration and
\* the prompt is the record's text, not a second marker
C23_Witness ==
    /\ pc = "returned"
    /\ lines = <<L_Question, L_QUESTION2, L_A, L_B, L_C, L_D, L_CorrectB,
                 L_Prompt>>
    /\ i = 8
    /\ Len(ret.value) = 1
    /\ ret.value[1].question = L_QUESTION2

-----------------------------------------------------------------------------
(* Properties of the true/false extractor: sentences without "assume" *)

\* the 0-based indexes of the assumption sentences, in order
AssumptionIndexes ==
    SelectSeq([k \in 1..Len(sentences) |-> k - 1],
              LAMBDA k : IsAssumption(At(sentences, k)))

\* the assumption sentence at index s is resolved neither by its own trailing
\* fragment nor by the sentence right after it: its record is appended with
\* a drawn value
Drawn(s) ==
    /\ ~TRAILING_PATTERN(Remainder(At(sentences, s))).matched
    /\ ~NextAnnotation(s).matched

\* the correct_answer an assumption sentence gives its record: from its
\* trailing fragment tail, else from the sentence right after it, else the
\* value drawn
OwnAnswer(tail, next, drawn) ==
    IF tail.matched THEN TokenIndex(tail.g2)
    ELSE IF next.matched THEN TokenIndex(next.g1)
    ELSE drawn

\* the correct_answer of the n-th record, of the assumption sentences at the
\* indexes a: as the leading fragment of the next assumption sentence gives
\* it, else as its own sentence does
AnswerOf(a, n, ds) ==
    LET leading == IF n < Len(a)
                   THEN LEADING_PATTERN(strip(At(sentences, a[n + 1])))
                   ELSE NoMatch
    IN  IF leading.matched THEN TokenIndex(leading.g1)
        ELSE OwnAnswer(TRAILING_PATTERN(Remainder(At(sentences, a[n]))),
                       NextAnnotation(a[n]),
                       ds[Cardinality({m \in 1..n : Drawn(a[m])})])

\* the list returned and the draws are those of the assumption sentences at
\* the indexes a
GivenBy(a) ==
    /\ Len(ret.value) = Len(a)
    /\ Len(draws) = Cardinality({n \in 1..Len(a) : Drawn(a[n])})
    /\ \A n \in 1..Len(a) :
          /\ ret.value[n].question = QuestionText(At(sentences, a[n]))
          /\ ret.value[n].correct_answer = AnswerOf(a, n, draws)

\* C24: a sentence unit without the whole word "assume" creates no record and
\* changes none: the iteration on it only adds 1 to the index. Its 'Correct
\* Answer' token is read only as the sentence right after an assumption
\* sentence that its own trailing fragment does not resolve; with a trailing
\* fragment the next sentence is neither used nor passed over. The list
\* returned is given by the assumption sentences, the sentence right after
\* each and the draws alone, so an annotation sentence standing elsewhere
\* (before the first assumption sentence, or after another sentence) has no
\* effect on it.
C24_NonAssumptionSentences ==
    /\ [][(pc = "tf_scan" /\ i < Len(sentences)
           /\ ~IsAssumption(At(sentences, i))) =>
             /\ questions' = questions
             /\ draws' = draws
             /\ i' = i + 1
             /\ pc' = "tf_scan"]_vars
    /\ [][(AtAssumption
           /\ TRAILING_PATTERN(Remainder(At(sentences, i))).matched) =>
             /\ NewRecord.correct_answer = TokenIndex(
                    TRAILING_PATTERN(Remainder(At(sentences, i))).g2)
             /\ i' = i + 1]_vars
    /\ [][(AtAssumption /\ i' = i + 2) =>
             /\ ~TRAILING_PATTERN(Remainder(At(sentences, i))).matched
             /\ NextAnnotation(i).matched
             /\ ~IsAssumption(At(sentences, i + 1))
             /\ NewRecord.correct_answer =
                    TokenIndex(NextAnnotation(i).g1)]_vars
    /\ [](pc = "returned" /\ sentences # <<>> => GivenBy(AssumptionIndexes))

\* an annotation sentence before the only assumption sentence and another one
\* behind a sentence without "assume": the record holds the draw
C24_Witness ==
    /\ pc = "returned"
    /\ lines = <<T_correct_f, T_Assume, T_assumed, T_CorrectTrue>>
    /\ Len(sentences) = 4
    /\ ret.value = <<create_question_dict(T_Assume, ANSWERS, "true_false", 0)>>
    /\ draws = <<0>>

-----------------------------------------------------------------------------
(* Properties of the true/false extractor: the retroactive overwrite *)

\* the index of the last assumption sentence before index k
PreviousAssumption(k) ==
    Max({j \in 0..(k - 1) : IsAssumption(At(sentences, j))})

\* the scan stands on an assumption sentence with a leading fragment, and the
\* last record took its answer from the sentence after its own sentence
OverwritesLookahead ==
    /\ AtAssumption
    /\ LEADING_PATTERN(strip(At(sentences, i))).matched
    /\ questions # <<>>
    /\ ~TRAILING_PATTERN(
           Remainder(At(sentences, PreviousAssumption(i)))).matched
    /\ NextAnnotation(PreviousAssumption(i)).matched

\* the last record keeps the answer it has
LastAnswerKept ==
    questions'[Len(questions)].correct_answer =
        questions[Len(questions)].correct_answer

\* C25 as stated: whenever the next assumption sentence carries a leading
\* fragment, the value the last record took from the sentence after it and
\* the value the leading fragment writes are the same.
C25_OverwriteRepeatsLookahead ==
    [][OverwritesLookahead => LastAnswerKept]_vars

\* C25, amended: a step changes no record but the last one, and the last one
\* only in its correct_answer and only on an assumption sentence with a
\* leading fragment, which writes the index of its token; that step appends
\* the next record, so a record is written at most once after it is appended
\* and is final once a later record exists. The value written equals the one
\* taken from the sentence after the record's own sentence when the sentence
\* with the leading fragment is that very sentence; otherwise an annotation
\* sentence without "assume" follows the record's sentence, and the leading
\* fragment's value replaces the one taken from that sentence.
C25_OverwriteOnce ==
    /\ [][pc = "tf_scan" =>
             \A k \in 1..Len(questions) :
                 questions'[k] # questions[k] =>
                     /\ k = Len(questions)
                     /\ AtAssumption
                     /\ LEADING_PATTERN(strip(At(sentences, i))).matched
                     /\ SameButAnswer(k)]_vars
    /\ [][(AtAssumption /\ questions # <<>>
           /\ LEADING_PATTERN(strip(At(sentences, i))).matched) =>
             /\ Len(questions') = Len(questions) + 1
             /\ questions'[Len(questions)].correct_answer =
                    TokenIndex(LEADING_PATTERN(strip(At(sentences, i))).g1)]_vars
    /\ [][(OverwritesLookahead /\ PreviousAssumption(i) = i - 1) =>
             LastAnswerKept]_vars
    /\ [][(OverwritesLookahead /\ PreviousAssumption(i) # i - 1) =>
             /\ ~IsAssumption(At(sentences, PreviousAssumption(i) + 1))
             /\ questions[Len(questions)].correct_answer =
                    TokenIndex(NextAnnotation(PreviousAssumption(i)).g1)]_vars

\* "Assume X." then "Correct Answer: True Assume X.": the first record took
\* True from the second sentence, whose leading fragment wrote True again
C25_Witness ==
    /\ pc = "returned"
    /\ lines = <<T_Assume, T_CorrectTrue, T_Assume>>
    /\ Len(sentences) = 2
    /\ Len(ret.value) = 2
    /\ ret.value[1].correct_answer = 0
    /\ Len(draws) = 1

-----------------------------------------------------------------------------
(* Properties of parse_docx_questions: an error under 'all' *)

\* C26: under 'all', a marker whose block is not well formed makes the
\* multiple-choice scan raise, and the error of _parse_single_question is the
\* outcome of parse_docx_questions. When the call has raised, the parser at
\* work is the multiple-choice one, no parser has returned, every parser of
\* the registry is still to be run (the true/false one has not been
\* started), nothing has been collected and nothing is returned; no step of
\* the call follows.
C26_AllAborts ==
    /\ [][(pc = "mc_scan" /\ question_type = Some("all")
           /\ i < Len(lines) /\ IsMarker(At(lines, i)) /\ ~BlockAt(i)) =>
             /\ pc' = "raised"
             /\ raised' = _parse_single_question(lines, i, 0)
             /\ IsError(raised')]_vars
    /\ []((pc = "raised" /\ question_type = Some("all")) =>
             /\ parser.class = "MultipleChoiceParser"
             /\ outputs = <<>>
             /\ ClassesOf(parsers) = values(_parsers)
             /\ docx_questions = <<>>
             /\ ret = None
             /\ first = None => sentences = <<>>)
    /\ [][(pc = "raised" /\ question_type = Some("all")) =>
             /\ pc' = "idle"
             /\ first' # None
             /\ first'.value.ret = None
             /\ first'.value.raised = raised]_vars

\* "Assume X." and a marker that nothing follows: the call raises although
\* the true/false parser would have returned a record for the first line
C26_Witness ==
    /\ pc = "raised"
    /\ question_type = Some("all")
    /\ docx_content = Text(<<T_Assume, L_Question>>)
    /\ raised = NoQuestionText(2)
    /\ "TrueFalseParser" \in Range(ClassesOf(parsers))
    /\ first = None

-----------------------------------------------------------------------------
(* The extractor of src/parse_questions.py, which the registry-based one    *)
(* replaced: records without correct_answer                                *)

expected_labels == <<"A", "B", "C", "D">>

\* the for loop over expected_labels from label number k on, at line index
\* idx: the answers and the index after them, or the ValueError raised
RECURSIVE LegacyAnswers(_, _, _, _, _)
LegacyAnswers(lns, idx, question_text, k, answers) ==
    IF k > Len(expected_labels) THEN [answers |-> answers, i |-> idx]
    ELSE IF idx >= Len(lns)
    THEN MissingAnswer(question_text, expected_labels[k])
    ELSE IF ~ANSWER_PATTERN(expected_labels[k], At(lns, idx)).matched
    THEN ImproperAnswer(question_text, expected_labels[k], At(lns, idx))
    ELSE LegacyAnswers(lns, idx + 1, question_text, k + 1,
             Append(answers,
                    strip(ANSWER_PATTERN(expected_labels[k], At(lns, idx)).g1)))

\* the record appended for a block
LegacyRecord(question_text, answers) ==
    [question |-> question_text, answers |-> answers,
     type |-> "multiple_choice"]

RECURSIVE LegacyScan(_, _, _)

\* the rest of the loop once the answers of a block have been collected
LegacyBlock(lns, question_text, collected, qs) ==
    IF IsError(collected) THEN collected
    ELSE LegacyScan(lns, collected.i,
             Append(qs, LegacyRecord(question_text, collected.answers)))

\* the while loop from line index idx on with the questions collected so
\* far: the list returned, or the ValueError raised
LegacyScan(lns, idx, qs) ==
    IF idx >= Len(lns) THEN [questions |-> qs]
    ELSE IF ~IsMarker(At(lns, idx)) THEN LegacyScan(lns, idx + 1, qs)
    ELSE IF idx + 1 >= Len(lns) THEN NoQuestionText(idx + 1)
    ELSE LegacyBlock(lns, At(lns, idx + 1),
             LegacyAnswers(lns, idx + 2, At(lns, idx + 1), 1, <<>>), qs)

\* parse_multiple_choice_questions(lines) of src/parse_questions.py
parse_multiple_choice_questions(lns) == LegacyScan(lns, 0, <<>>)
-----------------------------------------------------------------------------
(* Properties of the multiple-choice extractor: the extractor it replaced *)

\* a record without its correct_answer
WithoutCorrectAnswer(q) ==
    [question |-> q.question, answers |-> q.answers, type |-> q.type]

\* C27: on every line list, MultipleChoiceParser.parse and the
\* parse_multiple_choice_questions of src/parse_questions.py end alike: when
\* one raises, the other raises the same error (same kind, prompt excerpt,
\* expected label and line); when one returns, the other returns a list of
\* the same length with the same question, answers and type at each
\* position, the records of the new one holding a correct_answer in
\* addition.
C27_RefinesLegacy ==
    /\ pc = "raised" => parse_multiple_choice_questions(lines) = raised
    /\ pc = "returned" =>
         parse_multiple_choice_questions(lines) =
             [questions |-> [k \in 1..Len(ret.value) |->
                                WithoutCorrectAnswer(ret.value[k])]]

\* a narrative line, then a block with its 'Correct Answer' line: the new
\* extractor consumed the line, the old one passed over it, and both found
\* the one block
C27_Witness ==
    /\ pc = "returned"
    /\ lines = <<L_Prompt, L_Question, L_Prompt, L_A, L_B, L_C, L_D,
                 L_CorrectB>>
    /\ ret.value =
           <<create_question_dict(L_Prompt, AnswerTexts, "multiple_choice", 1)>>
    /\ parse_multiple_choice_questions(lines) =
           [questions |-> <<LegacyRecord(L_Prompt, AnswerTexts)>>]

-----------------------------------------------------------------------------
\* validate_quiz.py: the structural validator of a quiz file

\* bound: the number of items of an arbitrary quiz array
MaxItems == 2

\* the values json.loads yields, tagged with their Python type
JsonStr(s) == [py |-> "str", value |-> s]
JsonInt(n) == [py |-> "int", value |-> n]
JsonList(items) == [py |-> "list", value |-> items]
JsonDict(fields) == [py |-> "dict", value |-> fields]

\* isinstance(v, t)
isinstance(v, t) == v.py = t

\* a field of an extractor record as json.dump writes it and json.loads reads
\* it back
json_field(name, v) ==
    IF name = "answers"
    THEN JsonList([j \in 1..Len(v) |-> JsonStr(v[j])])
    ELSE IF name = "correct_answer" THEN JsonInt(v)
    ELSE JsonStr(v)

\* json.dump(questions, f) followed by json.loads(content)
json_dump(qs) ==
    JsonList([k \in 1..Len(qs) |->
                 JsonDict([name \in DOMAIN qs[k] |->
                              json_field(name, qs[k][name])])])

\* the issue reported for the 'question' field of an item
question_issues(item, q_num) ==
    IF "question" \notin DOMAIN item.value
    THEN <<[q_num |-> q_num, issue |-> "Missing 'question' field"]>>
    ELSE IF ~isinstance(item.value["question"], "str")
            \/ strip(item.value["question"].value) = <<>>
    THEN <<[q_num |-> q_num,
            issue |-> "'question' must be a non-empty string"]>>
    ELSE <<>>

\* the issues of the answers of a list of four, in order
RECURSIVE answer_issues(_, _, _)
answer_issues(answers, q_num, j) ==
    IF j > Len(answers) THEN <<>>
    ELSE (IF ~isinstance(answers[j], "str")
             \/ strip(answers[j].value) = <<>>
          THEN <<[q_num |-> q_num, answer |-> j,
                  issue |-> "Must be a non-empty string"]>>
          ELSE <<>>) \o answer_issues(answers, q_num, j + 1)

\* variant: the length of the answers array is not checked
answers_issues_any_length(item, q_num) ==
    IF "answers" \notin DOMAIN item.value
    THEN <<[q_num |-> q_num, issue |-> "Missing 'answers' field"]>>
    ELSE IF ~isinstance(item.value["answers"], "list")
    THEN <<[q_num |-> q_num, issue |-> "'answers' must be an array"]>>
    ELSE answer_issues(item.value["answers"].value, q_num, 1)

\* the issues reported for the 'answers' field of an item
answers_issues(item, q_num) ==
    IF "answers" \notin DOMAIN item.value
    THEN <<[q_num |-> q_num, issue |-> "Missing 'answers' field"]>>
    ELSE IF ~isinstance(item.value["answers"], "list")
    THEN <<[q_num |-> q_num, issue |-> "'answers' must be an array"]>>
    ELSE IF Len(item.value["answers"].value) # 4
    THEN <<[q_num |-> q_num, issue |-> "Must have exactly 4 answers",
            found |-> Len(item.value["answers"].value)]>>
    ELSE answer_issues(item.value["answers"].value, q_num, 1)

\* the issues one iteration of the loop over the items appends
item_issues(item, q_num) ==
    IF ~isinstance(item, "dict")
    THEN <<[q_num |-> q_num, issue |-> "Not an object"]>>
    ELSE question_issues(item, q_num) \o answers_issues(item, q_num)

\* the issues list after the loop, from item k on
RECURSIVE issues(_, _)
issues(items, k) ==
    IF k > Len(items) THEN <<>>
    ELSE item_issues(items[k], k) \o issues(items, k + 1)

\* the structure validation of the loaded value; no output path is given
validate_structure(d) ==
    IF ~isinstance(d, "list") THEN FALSE
    ELSE IF Len(d.value) = 0 THEN FALSE
    ELSE IF issues(d.value, 1) # <<>> THEN FALSE
    ELSE TRUE

\* the shapes of the 'question' and 'answers' values of the quiz files drawn
QuestionKinds == {"missing", "int", "empty", "blank", "text"}
AnswersKinds ==
    {"missing", "str", "three", "four", "five", "empty", "blank", "int"}

\* the 'question' value of a shape
JsonQuestion(kind) ==
    CASE kind = "int" -> JsonInt(0)
      [] kind = "empty" -> JsonStr(<<>>)
      [] kind = "blank" -> JsonStr(<<" ">>)
      [] OTHER -> JsonStr(<<"Q">>)

\* the 'answers' value of a shape
JsonAnswers(kind) ==
    LET a == JsonStr(<<"a">>)
    IN  CASE kind = "str" -> a
          [] kind = "three" -> JsonList(<<a, a, a>>)
          [] kind = "five" -> JsonList(<<a, a, a, a, a>>)
          [] kind = "empty" -> JsonList(<<a, JsonStr(<<>>), a, a>>)
          [] kind = "blank" -> JsonList(<<a, a, a, JsonStr(<<" ">>)>>)
          [] kind = "int" -> JsonList(<<a, a, JsonInt(1), a>>)
          [] OTHER -> JsonList(<<a, a, a, a>>)

\* the shapes of the items of the quiz files drawn
ItemKinds ==
    [object : {TRUE}, question : QuestionKinds, answers : AnswersKinds]
    \cup [object : {FALSE}, question : {"missing"}, answers : {"missing"}]

\* the item of a shape
JsonItem(kind) ==
    IF ~kind.object THEN JsonStr(<<"Q">>)
    ELSE LET names == (IF kind.question = "missing" THEN {}
                       ELSE {"question"})
                      \cup (IF kind.answers = "missing" THEN {}
                            ELSE {"answers"})
         IN  JsonDict([name \in names |->
                          IF name = "question" THEN JsonQuestion(kind.question)
                          ELSE JsonAnswers(kind.answers)])

\* the shapes of the quiz files drawn: a number, an object, or an array of
\* items
FileKinds ==
    {<<"int">>, <<"dict">>}
    \cup {<<"list">> \o items :
             items \in UNION {[1..n -> ItemKinds] : n \in 0..MaxItems}}

\* the quiz file of a shape
JsonFile(kind) ==
    CASE kind[1] = "int" -> JsonInt(0)
      [] kind[1] = "dict" -> JsonDict([question |-> JsonStr(<<"Q">>)])
      [] OTHER -> JsonList([k \in 1..(Len(kind) - 1) |-> JsonItem(kind[k + 1])])

\* main of parse_questions.py has written its questions to the output file,
\* and validate_quiz.py reads the file
load_extracted ==
    /\ pc = "done"
    /\ first = None
    /\ data = None
    /\ data' = Some(json_dump(ret.value))
    /\ pc' = "loaded"
    /\ UNCHANGED <<docx_content, lines, sentences, i, questions, raised, ret,
                   draws, registry, dispatch, first, success, tester>>

\* main of validate_quiz.py: success = validate_and_fix_quiz(input_path)
validate_and_fix_quiz ==
    /\ pc = "loaded"
    /\ success = None
    /\ success' = Some(validate_structure(data.value))
    /\ pc' = "validated"
    /\ UNCHANGED <<docx_content, lines, sentences, i, questions, raised, ret,
                   draws, registry, dispatch, first, data, tester>>

\* a quiz file of any origin is about to be validated
InitJson ==
    /\ docx_content = <<>>
    /\ lines = <<>>
    /\ sentences = <<>>
    /\ i = 0
    /\ questions = <<>>
    /\ pc = "loaded"
    /\ raised = None
    /\ ret = None
    /\ draws = <<>>
    /\ _parsers = DefaultParsers
    /\ registered = <<"MultipleChoiceParser", "TrueFalseParser">>
    /\ called = [name |-> "register", arg |-> "TrueFalseParser"]
    /\ created = Len(registered)
    /\ question_type = None
    /\ parser = None
    /\ parsers = <<>>
    /\ docx_questions = <<>>
    /\ outputs = <<>>
    /\ first = None
    /\ \E kind \in FileKinds : data = Some(JsonFile(kind))
    /\ success = None
    /\ NoTester

InitValidate == InitDocx \/ InitJson

NextValidate ==
    \/ \E type \in QuestionTypes : parse_docx_questions(type)
    \/ Docx_call_parse
    \/ MultipleChoiceParser_parse
    \/ MC_skip_line
    \/ MC_question
    \/ MC_return
    \/ TrueFalseParser_parse
    \/ TF_skip_sentence
    \/ TF_assumption
    \/ TF_return
    \/ CustomParser_parse
    \/ Docx_extend
    \/ Docx_return
    \/ load_extracted
    \/ validate_and_fix_quiz

SpecValidate == InitValidate /\ [][NextValidate]_vars

\* a string with at least one character
NonEmptyStr(v) == isinstance(v, "str") /\ Len(v.value) > 0

\* a string with at least one character that is not whitespace
NonBlankStr(v) ==
    isinstance(v, "str") /\ \E k \in 1..Len(v.value) : ~IsSpace(v.value[k])

\* an object with a 'question' and exactly 4 'answers', all of them ok
WellFormedItem(item, ok(_)) ==
    /\ isinstance(item, "dict")
    /\ "question" \in DOMAIN item.value
    /\ ok(item.value["question"])
    /\ "answers" \in DOMAIN item.value
    /\ isinstance(item.value["answers"], "list")
    /\ Len(item.value["answers"].value) = 4
    /\ \A j \in 1..4 : ok(item.value["answers"].value[j])

\* a non-empty array of well-formed items
WellFormedQuiz(d, ok(_)) ==
    /\ isinstance(d, "list")
    /\ Len(d.value) > 0
    /\ \A k \in 1..Len(d.value) : WellFormedItem(d.value[k], ok)

\* the validated file was written by the built-in extractors
BuiltInOutput ==
    /\ ret # None
    /\ \A k \in 1..Len(ret.value) :
          ret.value[k].type \in {"multiple_choice", "true_false"}

\* a file holding only the k-th record of the output passes the validation
RecordAccepted(k) == validate_structure(json_dump(<<ret.value[k]>>))

\* C28 (amended): the validator accepts a quiz exactly when the root is a
\* non-empty array and every item is an object with a 'question' that is a
\* string with a non-whitespace character and exactly 4 'answers' that are
\* such strings; so for outputs of the built-in extractors every
\* multiple_choice record is accepted, every true_false record is rejected,
\* and validation passes iff the output is non-empty without true_false record
C28_Validator ==
    pc = "validated" =>
        /\ success.value = WellFormedQuiz(data.value, NonBlankStr)
        /\ BuiltInOutput =>
              /\ \A k \in 1..Len(ret.value) :
                    RecordAccepted(k) <=> ret.value[k].type = "multiple_choice"
              /\ success.value <=>
                    /\ ret.value # <<>>
                    /\ \A k \in 1..Len(ret.value) :
                          ret.value[k].type # "true_false"

\* C28 as stated: a 'question' and 4 'answers' that are non-empty strings are
\* enough for the validator to accept
C28_NonEmptyStrings ==
    pc = "validated" =>
        success.value = WellFormedQuiz(data.value, NonEmptyStr)

\* an extracted quiz of multiple_choice records was validated and passed
C28_Witness ==
    /\ pc = "validated"
    /\ BuiltInOutput
    /\ Len(ret.value) > 0
    /\ success.value

-----------------------------------------------------------------------------
\* load-testing/load_test.py: QuizLoadTester

\* bounds: the users of the list, the quizzes fetch_quizzes finds, and the
\* values of --concurrent and --max-submissions drawn
MaxUsers == 3
MaxFetched == 1
MaxConcurrent == 2
MaxSubmissions == 1
\* bound: the users of the runs whose scheduling is fair
MaxFairUsers == 2

\* the configurations drawn
LoadTestConfig ==
    [concurrent_users : 1..MaxConcurrent,
     max_submissions : {None} \cup {Some(n) : n \in 0..MaxSubmissions}]

\* the counters of self.stats after __init__
NewStats ==
    [users_completed |-> 0, quizzes_taken |-> 0, submissions_success |-> 0,
     submissions_failed |-> 0, logins_success |-> 0, logins_failed |-> 0]

\* asyncio.Semaphore(value): its initial value
Semaphore(value) == value

\* a simulate_user coroutine handed to gather: its position, its locals
\* login_success, quizzes_to_take (the number left) and success, and what it
\* has done so far: the submissions it sent, the quizzes it took and the
\* times it counted itself completed
NewTask ==
    [pc |-> "pending", login_success |-> FALSE, quizzes_to_take |-> 0,
     success |-> FALSE, sent |-> 0, taken |-> 0, completed |-> 0]

\* the positions at which a task waits for "async with self._progress_lock"
LockSections ==
    {"count_login", "complete_failed", "check_limit_reached", "check_limit",
     "count_quiz", "complete"}

\* the task of user u is in the body of a lock section
Holds(u) == _progress_lock = Some(u)

\* the lengths of quizzes_to_take: some of the quizzes, each once or twice
Planned ==
    UNION {n..(2 * n) : n \in 1..Min({5, quizzes})}

\* QuizLoadTester(config, users) has been constructed
InitLoad ==
    /\ docx_content = <<>>
    /\ lines = <<>>
    /\ sentences = <<>>
    /\ i = 0
    /\ questions = <<>>
    /\ pc = "constructed"
    /\ raised = None
    /\ ret = None
    /\ draws = <<>>
    /\ _parsers = DefaultParsers
    /\ registered = <<"MultipleChoiceParser", "TrueFalseParser">>
    /\ called = [name |-> "register", arg |-> "TrueFalseParser"]
    /\ created = Len(registered)
    /\ question_type = None
    /\ parser = None
    /\ parsers = <<>>
    /\ docx_questions = <<>>
    /\ outputs = <<>>
    /\ first = None
    /\ NoValidator
    /\ \E c \in LoadTestConfig :
          /\ config = Some(c)
          /\ semaphore = Semaphore(c.concurrent_users)
    /\ users \in 1..MaxUsers
    /\ quizzes = 0
    /\ _progress_lock = None
    /\ _submission_limit_reached = FALSE
    /\ stats = NewStats
    /\ tasks = <<>>
    /\ posted = 0

\* what no step of the load tester changes
LoadFrame ==
    UNCHANGED <<docx_content, lines, sentences, i, questions, raised, ret,
                draws, registry, dispatch, first, validator, config, users>>

\* run: fetch_quizzes finds no quiz, and run returns
run_no_quizzes ==
    /\ pc = "constructed"
    /\ pc' = "no_quizzes"
    /\ LoadFrame
    /\ UNCHANGED <<quizzes, semaphore, _progress_lock,
                   _submission_limit_reached, stats, tasks, posted>>

\* run: fetch_quizzes finds quizzes; a task per user is handed to gather
run ==
    /\ pc = "constructed"
    /\ quizzes' \in 1..MaxFetched
    /\ tasks' = [u \in 1..users |-> NewTask]
    /\ pc' = "gather"
    /\ LoadFrame
    /\ UNCHANGED <<semaphore, _progress_lock, _submission_limit_reached,
                   stats, posted>>

\* variant: the session body is entered without waiting for a free slot
simulate_user_no_wait(u) ==
    /\ pc = "gather"
    /\ tasks[u].pc = "pending"
    /\ semaphore' = semaphore - 1
    /\ tasks' = [tasks EXCEPT ![u].pc = "lookup_user"]
    /\ LoadFrame
    /\ UNCHANGED <<pc, quizzes, _progress_lock, _submission_limit_reached,
                   stats, posted>>

\* simulate_user: "async with self.semaphore" is entered
simulate_user(u) ==
    /\ pc = "gather"
    /\ tasks[u].pc = "pending"
    /\ semaphore > 0
    /\ semaphore' = semaphore - 1
    /\ tasks' = [tasks EXCEPT ![u].pc = "lookup_user"]
    /\ LoadFrame
    /\ UNCHANGED <<pc, quizzes, _progress_lock, _submission_limit_reached,
                   stats, posted>>

\* lookup_user returns: True for status 200 with a row, False otherwise
lookup_user(u) ==
    /\ tasks[u].pc = "lookup_user"
    /\ \E login_success \in BOOLEAN :
          tasks' = [tasks EXCEPT ![u].pc = "count_login",
                                 ![u].login_success = login_success]
    /\ LoadFrame
    /\ UNCHANGED <<pc, quizzes, semaphore, _progress_lock,
                   _submission_limit_reached, stats, posted>>

\* "async with self._progress_lock" is entered
acquire(u) ==
    /\ tasks[u].pc \in LockSections
    /\ _progress_lock = None
    /\ _progress_lock' = Some(u)
    /\ LoadFrame
    /\ UNCHANGED <<pc, quizzes, semaphore, _submission_limit_reached, stats,
                   tasks, posted>>

\* the login is counted; after a successful one quizzes_to_take is planned
count_login(u) ==
    /\ tasks[u].pc = "count_login"
    /\ Holds(u)
    /\ _progress_lock' = None
    /\ IF tasks[u].login_success
       THEN /\ stats' = [stats EXCEPT !.logins_success = @ + 1]
            /\ \E n \in Planned :
                  tasks' = [tasks EXCEPT ![u].pc = "check_limit_reached",
                                         ![u].quizzes_to_take = n]
       ELSE /\ stats' = [stats EXCEPT !.logins_failed = @ + 1]
            /\ tasks' = [tasks EXCEPT ![u].pc = "complete_failed"]
    /\ LoadFrame
    /\ UNCHANGED <<pc, quizzes, semaphore, _submission_limit_reached, posted>>

\* variant: the user whose login failed is not counted as completed
complete_failed_uncounted(u) ==
    /\ tasks[u].pc = "complete_failed"
    /\ Holds(u)
    /\ _progress_lock' = None
    /\ semaphore' = semaphore + 1
    /\ tasks' = [tasks EXCEPT ![u].pc = "done"]
    /\ LoadFrame
    /\ UNCHANGED <<pc, quizzes, _submission_limit_reached, stats, posted>>

\* the login failed: the user is counted as completed and the session is left
complete_failed(u) ==
    /\ tasks[u].pc = "complete_failed"
    /\ Holds(u)
    /\ _progress_lock' = None
    /\ stats' = [stats EXCEPT !.users_completed = @ + 1]
    /\ semaphore' = semaphore + 1
    /\ tasks' = [tasks EXCEPT ![u].pc = "done", ![u].completed = @ + 1]
    /\ LoadFrame
    /\ UNCHANGED <<pc, quizzes, _submission_limit_reached, posted>>

\* head of the loop over quizzes_to_take: break when the limit was reached
check_limit_reached(u) ==
    /\ tasks[u].pc = "check_limit_reached"
    /\ Holds(u)
    /\ _progress_lock' = None
    /\ tasks' = [tasks EXCEPT ![u].pc = IF _submission_limit_reached
                                        THEN "complete" ELSE "take_quiz"]
    /\ LoadFrame
    /\ UNCHANGED <<pc, quizzes, semaphore, _submission_limit_reached, stats,
                   posted>>

\* take_quiz: the thinking and answering time has passed
take_quiz(u) ==
    /\ tasks[u].pc = "take_quiz"
    /\ tasks' = [tasks EXCEPT ![u].pc = "check_limit"]
    /\ LoadFrame
    /\ UNCHANGED <<pc, quizzes, semaphore, _progress_lock,
                   _submission_limit_reached, stats, posted>>

\* variant: the check and the count of the submission are one step, the
\* submission being sent and counted while the lock is held
check_limit_and_post(u) ==
    /\ tasks[u].pc = "check_limit"
    /\ Holds(u)
    /\ _progress_lock' = None
    /\ IF _submission_limit_reached
       THEN /\ tasks' = [tasks EXCEPT ![u].pc = "count_quiz",
                                      ![u].success = FALSE]
            /\ UNCHANGED <<_submission_limit_reached, posted>>
       ELSE IF /\ config.value.max_submissions # None
               /\ posted >= config.value.max_submissions.value
       THEN /\ _submission_limit_reached' = TRUE
            /\ tasks' = [tasks EXCEPT ![u].pc = "count_quiz",
                                      ![u].success = FALSE]
            /\ UNCHANGED posted
       ELSE /\ posted' = posted + 1
            /\ tasks' = [tasks EXCEPT ![u].pc = "count_quiz",
                                      ![u].success = TRUE,
                                      ![u].sent = @ + 1]
            /\ UNCHANGED _submission_limit_reached
    /\ LoadFrame
    /\ UNCHANGED <<pc, quizzes, semaphore, stats>>

\* take_quiz: the check of the submission limit
check_limit(u) ==
    /\ tasks[u].pc = "check_limit"
    /\ Holds(u)
    /\ _progress_lock' = None
    /\ IF _submission_limit_reached
       THEN /\ tasks' = [tasks EXCEPT ![u].pc = "count_quiz",
                                      ![u].success = FALSE]
            /\ UNCHANGED _submission_limit_reached
       ELSE IF /\ config.value.max_submissions # None
               /\ stats.submissions_success
                      >= config.value.max_submissions.value
       THEN /\ _submission_limit_reached' = TRUE
            /\ tasks' = [tasks EXCEPT ![u].pc = "count_quiz",
                                      ![u].success = FALSE]
       ELSE /\ tasks' = [tasks EXCEPT ![u].pc = "post"]
            /\ UNCHANGED _submission_limit_reached
    /\ LoadFrame
    /\ UNCHANGED <<pc, quizzes, semaphore, stats, posted>>

\* take_quiz: the submission is POSTed. "created": status 200 or 201 and the
\* guess counts incremented; "failed": another status, or an exception after
\* the submission was sent; "error": an exception before it was sent
post(u) ==
    /\ tasks[u].pc = "post"
    /\ \E outcome \in {"created", "failed", "error"} :
          /\ posted' = IF outcome = "error" THEN posted ELSE posted + 1
          /\ tasks' = [tasks EXCEPT
                          ![u].pc = "count_quiz",
                          ![u].success = (outcome = "created"),
                          ![u].sent = IF outcome = "error" THEN @ ELSE @ + 1]
    /\ LoadFrame
    /\ UNCHANGED <<pc, quizzes, semaphore, _progress_lock,
                   _submission_limit_reached, stats>>

\* variant: the quiz is counted as taken whether or not the limit was reached
count_quiz_always_taken(u) ==
    /\ tasks[u].pc = "count_quiz"
    /\ Holds(u)
    /\ _progress_lock' = None
    /\ stats' =
          IF _submission_limit_reached
          THEN [stats EXCEPT !.quizzes_taken = @ + 1]
          ELSE IF tasks[u].success
          THEN [stats EXCEPT !.quizzes_taken = @ + 1,
                             !.submissions_success = @ + 1]
          ELSE [stats EXCEPT !.quizzes_taken = @ + 1,
                             !.submissions_failed = @ + 1]
    /\ tasks' = [tasks EXCEPT
                    ![u].quizzes_to_take = @ - 1,
                    ![u].taken = @ + 1,
                    ![u].pc = IF tasks[u].quizzes_to_take > 1
                              THEN "check_limit_reached" ELSE "complete"]
    /\ LoadFrame
    /\ UNCHANGED <<pc, quizzes, semaphore, _submission_limit_reached, posted>>

\* the outcome of take_quiz is counted unless the limit was reached; then the
\* loop goes on to the next quiz, or ends
count_quiz(u) ==
    /\ tasks[u].pc = "count_quiz"
    /\ Holds(u)
    /\ _progress_lock' = None
    /\ stats' =
          IF _submission_limit_reached THEN stats
          ELSE IF tasks[u].success
          THEN [stats EXCEPT !.quizzes_taken = @ + 1,
                             !.submissions_success = @ + 1]
          ELSE [stats EXCEPT !.quizzes_taken = @ + 1,
                             !.submissions_failed = @ + 1]
    /\ tasks' = [tasks EXCEPT
                    ![u].quizzes_to_take = @ - 1,
                    ![u].taken = @ + 1,
                    ![u].pc = IF tasks[u].quizzes_to_take > 1
                              THEN "check_limit_reached" ELSE "complete"]
    /\ LoadFrame
    /\ UNCHANGED <<pc, quizzes, semaphore, _submission_limit_reached, posted>>

\* the loop is over: the user is counted as completed and the session is left
complete(u) ==
    /\ tasks[u].pc = "complete"
    /\ Holds(u)
    /\ _progress_lock' = None
    /\ stats' = [stats EXCEPT !.users_completed = @ + 1]
    /\ semaphore' = semaphore + 1
    /\ tasks' = [tasks EXCEPT ![u].pc = "done", ![u].completed = @ + 1]
    /\ LoadFrame
    /\ UNCHANGED <<pc, quizzes, _submission_limit_reached, posted>>

\* run: gather has returned, every task being over
run_return ==
    /\ pc = "gather"
    /\ \A u \in 1..Len(tasks) : tasks[u].pc = "done"
    /\ pc' = "finished"
    /\ LoadFrame
    /\ UNCHANGED <<quizzes, semaphore, _progress_lock,
                   _submission_limit_reached, stats, tasks, posted>>

\* a step of the task of user u
Step(u) ==
    /\ u \in 1..Len(tasks)
    /\ \/ simulate_user(u)
       \/ lookup_user(u)
       \/ acquire(u)
       \/ count_login(u)
       \/ complete_failed(u)
       \/ check_limit_reached(u)
       \/ take_quiz(u)
       \/ check_limit(u)
       \/ post(u)
       \/ count_quiz(u)
       \/ complete(u)

NextLoad ==
    \/ run_no_quizzes
    \/ run
    \/ \E u \in 1..Len(tasks) : simulate_user(u)
    \/ \E u \in 1..Len(tasks) : lookup_user(u)
    \/ \E u \in 1..Len(tasks) : acquire(u)
    \/ \E u \in 1..Len(tasks) : count_login(u)
    \/ \E u \in 1..Len(tasks) : complete_failed(u)
    \/ \E u \in 1..Len(tasks) : check_limit_reached(u)
    \/ \E u \in 1..Len(tasks) : take_quiz(u)
    \/ \E u \in 1..Len(tasks) : check_limit(u)
    \/ \E u \in 1..Len(tasks) : post(u)
    \/ \E u \in 1..Len(tasks) : count_quiz(u)
    \/ \E u \in 1..Len(tasks) : complete(u)
    \/ run_return

SpecLoad == InitLoad /\ [][NextLoad]_vars

\* a tester constructed for not more than MaxFairUsers users
InitLoadFair == InitLoad /\ users <= MaxFairUsers

\* the event loop runs every task that can go on, every request to the
\* backend comes back or fails, and run goes on when it can
SpecLoadFair ==
    /\ InitLoadFair
    /\ [][NextLoad]_vars
    /\ \A u \in 1..MaxUsers : WF_vars(Step(u))
    /\ WF_vars(run \/ run_no_quizzes)
    /\ WF_vars(run_return)

\* the users whose task is inside the body of "async with self.semaphore"
InSession == {u \in 1..Len(tasks) : tasks[u].pc \notin {"pending", "done"}}

\* C21: at any time at most concurrent_users tasks are inside their session
\* body (the semaphore counting the free slots), and a task enters the body
\* only when fewer than concurrent_users are inside, so that once the slots
\* are all taken a further user starts only after another has left
C21_ConcurrencyBound ==
    /\ [](/\ Cardinality(InSession) <= config.value.concurrent_users
          /\ semaphore = config.value.concurrent_users - Cardinality(InSession))
    /\ [][\A u \in 1..Len(tasks) :
             (tasks[u].pc = "pending" /\ tasks'[u].pc # "pending") =>
                 /\ Cardinality(InSession) < config.value.concurrent_users
                 /\ InSession' = InSession \cup {u}]_vars
    /\ [][\A u \in 1..Len(tasks) :
             (u \in InSession /\ u \notin InSession') =>
                 /\ tasks'[u].pc = "done"
                 /\ semaphore' = semaphore + 1]_vars

\* every slot is taken while a further user waits to start its session
C21_Witness ==
    /\ users > config.value.concurrent_users
    /\ Cardinality(InSession) = config.value.concurrent_users
    /\ \E u \in 1..Len(tasks) : tasks[u].pc = "pending"
    /\ \E u \in 1..Len(tasks) : tasks[u].pc = "done"

\* the number of loop iterations the first k users have gone through
RECURSIVE Iterations(_)
Iterations(k) == IF k = 0 THEN 0 ELSE tasks[k].taken + Iterations(k - 1)

\* C29: quizzes_taken always equals submissions_success + submissions_failed;
\* and once _submission_limit_reached is set it stays set and quizzes_taken,
\* submissions_success and submissions_failed do not change any more
C29_CountersConsistent ==
    /\ [](stats.quizzes_taken =
             stats.submissions_success + stats.submissions_failed)
    /\ [][_submission_limit_reached =>
             /\ _submission_limit_reached'
             /\ stats'.quizzes_taken = stats.quizzes_taken
             /\ stats'.submissions_success = stats.submissions_success
             /\ stats'.submissions_failed = stats.submissions_failed]_vars

\* the limit was reached after a quiz had been counted, and the outcome of a
\* later iteration was left uncounted
C29_Witness ==
    /\ _submission_limit_reached
    /\ stats.quizzes_taken >= 1
    /\ Iterations(Len(tasks)) > stats.quizzes_taken

\* C22: when max_submissions is set, the quiz submissions sent to the backend
\* never number more than max_submissions
C22_SubmissionCap ==
    (config # None /\ config.value.max_submissions # None) =>
        posted <= config.value.max_submissions.value

\* the task of user u is over on the path of a failed login
FailedLogin(u) == tasks[u].pc = "done" /\ ~tasks[u].login_success

\* the task of user u is over, the limit having stopped it before it had gone
\* through its quizzes
StoppedEarly(u) ==
    tasks[u].pc = "done" /\ tasks[u].login_success
        /\ tasks[u].quizzes_to_take > 0

\* the task of user u is over, having gone through all its quizzes
WentThrough(u) ==
    tasks[u].pc = "done" /\ tasks[u].login_success
        /\ tasks[u].quizzes_to_take = 0

\* C30: with requests that come back and fair scheduling, each user session
\* of a run eventually finishes, its slot released, and the run ends; a user
\* is counted in users_completed exactly once, when its session finishes, on
\* each of the three paths, the failed login one without quiz or submission;
\* so the run ends with users_completed = logins_success + logins_failed =
\* the number of users
C30_EverySessionFinishes ==
    /\ (pc = "gather") ~> (pc = "finished")
    /\ [](\A u \in 1..Len(tasks) :
             /\ tasks[u].completed = (IF tasks[u].pc = "done" THEN 1 ELSE 0)
             /\ FailedLogin(u) => tasks[u].taken = 0 /\ tasks[u].sent = 0
             /\ tasks[u].pc = "done" =>
                   FailedLogin(u) \/ StoppedEarly(u) \/ WentThrough(u))
    /\ [](stats.users_completed =
             Cardinality({u \in 1..Len(tasks) : tasks[u].pc = "done"}))
    /\ [][\A u \in 1..Len(tasks) :
             tasks[u].pc = "done" => tasks'[u] = tasks[u]]_vars
    /\ [](pc = "finished" =>
             /\ stats.users_completed = users
             /\ stats.logins_success + stats.logins_failed = users
             /\ semaphore = config.value.concurrent_users
             /\ InSession = {})

\* the run has ended with a user whose login failed and a user the limit
\* stopped early, both counted
C30_Witness ==
    /\ pc = "finished"
    /\ \E u \in 1..users : FailedLogin(u)
    /\ \E u \in 1..users : StoppedEarly(u)
    /\ stats.users_completed = users

====
